---- MODULE Spec2Model ----
(***************************************************************************)
(* A model of rulesync's adapter registry and processors:                  *)
(*   - the skills registry (toolSkillFactories, defaultGetFactory) and the *)
(*     SkillsProcessor conversions,                                        *)
(*   - the RulesProcessor loads and its conversion with root injection,    *)
(*   - the capability lists of the two processors (getToolTargets),        *)
(*   - the round trip of a skill: convert, write, load, convert back,      *)
(*   - the loads read by read, with the reads completing in any order,     *)
(*   - ConfigResolver.resolve and the Config it builds,                    *)
(*   - the two constructors, and the canonical documents across two        *)
(*     conversions of the same input.                                      *)
(*                                                                         *)
(* A processor is constructed once (Init) and its operations are then      *)
(* called one after the other, in any order and with any input; an action  *)
(* is one whole call and records the call, its argument, its outcome and   *)
(* what it logged, until the caller takes the outcome (Return).            *)
(*                                                                         *)
(* Strings built by the code are modelled as sequences of parts, so that   *)
(* concatenation is \o and the empty string is <<>>.                       *)
(***************************************************************************)
EXTENDS Integers, Sequences, FiniteSets, TLC

VARIABLES
    toolTarget,         \* this.toolTarget
    global,             \* this.global
    simulateCommands,   \* this.simulateCommands (RulesProcessor)
    simulateSubagents,  \* this.simulateSubagents (RulesProcessor)
    simulateSkills,     \* this.simulateSkills (RulesProcessor)
    call,               \* the operation called last
    arg,                \* its argument (an array, or what is on disk)
    ret,                \* its outcome: a returned value or a thrown error
    log                 \* the logger calls it made, in order

vars == <<toolTarget, global, simulateCommands, simulateSubagents, simulateSkills,
          call, arg, ret, log>>

config == <<toolTarget, global, simulateCommands, simulateSubagents, simulateSkills>>

-----------------------------------------------------------------------------
(* Bounds *)

\* longest array of directories handed to a SkillsProcessor conversion
MaxDirs == 3

\* longest array of rule files handed to a RulesProcessor operation
MaxRules == 3

\* most non-root tool rule files found on disk by loadToolFiles
MaxFiles == 2

\* most options defined, by the caller and the config file together, in one
\* call of ConfigResolver.resolve
MaxDefined == 4

-----------------------------------------------------------------------------
(* Outcomes and helpers *)

Ok(v) == [status |-> "ok", value |-> v, error |-> ""]

Throw(msg) == [status |-> "throw", value |-> <<>>, error |-> msg]

\* Array.prototype.map
MapSeq(s, F(_)) == [i \in 1..Len(s) |-> F(s[i])]

\* s.findIndex(Test), 1-based; 0 when there is none (the code's -1)
FindIndex(s, Test(_)) ==
    IF \E i \in 1..Len(s) : Test(s[i])
    THEN CHOOSE i \in 1..Len(s) : Test(s[i]) /\ \A j \in 1..(i - 1) : ~Test(s[j])
    ELSE 0

\* an optional value: absent is <<>>, present is <<v>>
Absent == <<>>

Some(v) == <<v>>

-----------------------------------------------------------------------------
(* The skills registry *)

skillsProcessorToolTargetTuple ==
    <<"agentsmd", "claudecode", "codexcli", "copilot", "cursor", "geminicli">>

SkillsProcessorToolTarget ==
    {skillsProcessorToolTargetTuple[i] : i \in 1..Len(skillsProcessorToolTargetTuple)}

\* the registry entry of each tool; projectClass is optional
toolSkillFactories ==
    [t \in SkillsProcessorToolTarget |->
        CASE t = "agentsmd" ->
                [class |-> "AgentsmdSkill", projectClass |-> Absent,
                 meta |-> [supportsProject |-> TRUE, supportsSimulated |-> TRUE,
                           supportsGlobal |-> FALSE]]
          [] t = "claudecode" ->
                [class |-> "ClaudecodeSkill", projectClass |-> Absent,
                 meta |-> [supportsProject |-> TRUE, supportsSimulated |-> FALSE,
                           supportsGlobal |-> TRUE]]
          [] t = "codexcli" ->
                [class |-> "CodexCliSkill", projectClass |-> Some("CodexCliSimulatedSkill"),
                 meta |-> [supportsProject |-> TRUE, supportsSimulated |-> TRUE,
                           supportsGlobal |-> TRUE]]
          [] t = "copilot" ->
                [class |-> "CopilotSkill", projectClass |-> Absent,
                 meta |-> [supportsProject |-> TRUE, supportsSimulated |-> TRUE,
                           supportsGlobal |-> FALSE]]
          [] t = "cursor" ->
                [class |-> "CursorSkill", projectClass |-> Absent,
                 meta |-> [supportsProject |-> TRUE, supportsSimulated |-> TRUE,
                           supportsGlobal |-> FALSE]]
          [] t = "geminicli" ->
                [class |-> "GeminiCliSkill", projectClass |-> Absent,
                 meta |-> [supportsProject |-> TRUE, supportsSimulated |-> TRUE,
                           supportsGlobal |-> FALSE]]]

\* a wrong registry lookup: the two modes' classes swapped
defaultGetFactory_swapped(target, isGlobal) ==
    IF target \notin DOMAIN toolSkillFactories
    THEN Throw("Unsupported tool target: " \o target)
    ELSE LET factory == toolSkillFactories[target]
             selectedClass ==
                IF ~isGlobal THEN factory.class
                ELSE IF factory.projectClass # Absent THEN factory.projectClass[1]
                     ELSE factory.class
         IN Ok([class |-> selectedClass, meta |-> factory.meta])

\* a wrong registry lookup: a missing key falls back to the first entry
defaultGetFactory_fallback(target, isGlobal) ==
    LET factory == IF target \in DOMAIN toolSkillFactories
                   THEN toolSkillFactories[target]
                   ELSE toolSkillFactories[skillsProcessorToolTargetTuple[1]]
        selectedClass ==
            IF isGlobal THEN factory.class
            ELSE IF factory.projectClass # Absent THEN factory.projectClass[1]
                 ELSE factory.class
    IN Ok([class |-> selectedClass, meta |-> factory.meta])

\* defaultGetFactory(target, global)
defaultGetFactory(target, isGlobal) ==
    IF target \notin DOMAIN toolSkillFactories
    THEN Throw("Unsupported tool target: " \o target)
    ELSE LET factory == toolSkillFactories[target]
             selectedClass ==
                IF isGlobal THEN factory.class
                ELSE IF factory.projectClass # Absent THEN factory.projectClass[1]
                     ELSE factory.class
         IN Ok([class |-> selectedClass, meta |-> factory.meta])

\* Array.prototype.includes
Includes(s, x) == \E i \in 1..Len(s) : s[i] = x

\* [...toolSkillFactories.keys()]: the keys in insertion order
allToolTargetKeys ==
    <<"agentsmd", "claudecode", "codexcli", "copilot", "cursor", "geminicli">>

skillsProcessorToolTargetsProject ==
    LET SupportsProject(target) ==
            IF target \in DOMAIN toolSkillFactories
            THEN toolSkillFactories[target].meta.supportsProject ELSE TRUE
    IN SelectSeq(allToolTargetKeys, SupportsProject)

skillsProcessorToolTargetsSimulated ==
    LET SupportsSimulated(target) ==
            IF target \in DOMAIN toolSkillFactories
            THEN toolSkillFactories[target].meta.supportsSimulated ELSE FALSE
    IN SelectSeq(allToolTargetKeys, SupportsSimulated)

\* a global list derived from the wrong flag
skillsProcessorToolTargetsGlobal_byProject == skillsProcessorToolTargetsProject

skillsProcessorToolTargetsGlobal ==
    LET SupportsGlobal(target) ==
            IF target \in DOMAIN toolSkillFactories
            THEN toolSkillFactories[target].meta.supportsGlobal ELSE FALSE
    IN SelectSeq(allToolTargetKeys, SupportsGlobal)

\* a parameter's value: its default when the caller left it undefined
OrDefault(opt, default) == IF opt = Absent THEN default ELSE opt[1]

\* a getToolTargets that does not read includeSimulated
getToolTargets_simulatedKept(isGlobal, includeSimulated) ==
    IF isGlobal THEN skillsProcessorToolTargetsGlobal
    ELSE skillsProcessorToolTargetsProject

\* SkillsProcessor.getToolTargets({global, includeSimulated})
getToolTargets(isGlobal, includeSimulated) ==
    IF isGlobal THEN skillsProcessorToolTargetsGlobal
    ELSE LET projectTargets == skillsProcessorToolTargetsProject
             NotSimulated(target) == ~Includes(skillsProcessorToolTargetsSimulated, target)
         IN IF ~includeSimulated THEN SelectSeq(projectTargets, NotSimulated)
            ELSE projectTargets

\* SkillsProcessor.getToolTargetsSimulated()
getToolTargetsSimulated == skillsProcessorToolTargetsSimulated

\* SkillsProcessor.getToolTargetsGlobal()
getToolTargetsGlobal == skillsProcessorToolTargetsGlobal

-----------------------------------------------------------------------------
(* The skill classes *)

\* the native skill classes (they extend ToolSkill directly)
NativeSkillClasses == {"ClaudecodeSkill", "CodexCliSkill"}

\* the simulated skill classes other than CodexCliSimulatedSkill
OtherSimulatedSkillClasses ==
    {"AgentsmdSkill", "CopilotSkill", "CursorSkill", "GeminiCliSkill"}

\* a wrong hierarchy: CodexCliSimulatedSkill not derived from SimulatedSkill
IsSimulatedSkill_native(class) == class \in OtherSimulatedSkillClasses

\* instanceof SimulatedSkill; CodexCliSimulatedSkill extends SimulatedSkill
IsSimulatedSkill(class) ==
    class = "CodexCliSimulatedSkill" \/ class \in OtherSimulatedSkillClasses

\* instanceof ToolSkill (SimulatedSkill extends ToolSkill)
IsToolSkill(class) == class \in NativeSkillClasses \/ IsSimulatedSkill(class)

ToolSkillClasses ==
    NativeSkillClasses \cup OtherSimulatedSkillClasses \cup {"CodexCliSimulatedSkill"}

\* the tool a skill class passes as toolTarget to isTargetedByRulesyncSkillDefault
ClassToolTarget(class) ==
    CASE class = "AgentsmdSkill" -> "agentsmd"
      [] class = "ClaudecodeSkill" -> "claudecode"
      [] class = "CodexCliSkill" -> "codexcli"
      [] class = "CodexCliSimulatedSkill" -> "codexcli"
      [] class = "CopilotSkill" -> "copilot"
      [] class = "CursorSkill" -> "cursor"
      [] class = "GeminiCliSkill" -> "geminicli"

\* ToolSkill.isTargetedByRulesyncSkillDefault: absent targets, "*" or the tool
isTargetedByRulesyncSkillDefault(rulesyncSkill, target) ==
    \/ rulesyncSkill.targets = Absent
    \/ "*" \in rulesyncSkill.targets[1]
    \/ target \in rulesyncSkill.targets[1]

\* <Class>.isTargetedByRulesyncSkill(rulesyncSkill)
isTargetedByRulesyncSkill(class, rulesyncSkill) ==
    isTargetedByRulesyncSkillDefault(rulesyncSkill, ClassToolTarget(class))

\* options?.global as a condition: false when options or global is omitted
OptionsGlobal(options) ==
    /\ options # Absent
    /\ options[1].global # Absent
    /\ options[1].global[1]

\* a getSettablePaths without the global-mode check
CodexCliSimulatedSkill_getSettablePaths_anyMode(optGlobal) == Ok(".codex/skills")

\* CodexCliSimulatedSkill.getSettablePaths(options)
CodexCliSimulatedSkill_getSettablePaths(optGlobal) ==
    IF optGlobal
    THEN Throw("CodexCliSimulatedSkill does not support global mode.")
    ELSE Ok(".codex/skills")

\* <Class>.fromRulesyncSkill({rulesyncSkill, global}): the tool skill of a
\* canonical skill, keeping its directory name
fromRulesyncSkill(class, rulesyncSkill, isGlobal) ==
    [kind |-> class, dirName |-> rulesyncSkill.dirName, targets |-> Absent,
     frontmatter |-> [name |-> rulesyncSkill.frontmatter.name,
                      description |-> rulesyncSkill.frontmatter.description],
     body |-> rulesyncSkill.body]

\* toolSkill.toRulesyncSkill(): SimulatedSkill's always throws
toRulesyncSkill(toolSkill) ==
    IF IsSimulatedSkill(toolSkill.kind)
    THEN Throw("Not implemented because it is a SIMULATED skill.")
    ELSE Ok([kind |-> "RulesyncSkill", dirName |-> toolSkill.dirName,
             targets |-> Some({"*"}),
             frontmatter |-> [name |-> toolSkill.frontmatter.name,
                              description |-> toolSkill.frontmatter.description],
             body |-> toolSkill.body])

-----------------------------------------------------------------------------
(* SkillsProcessor *)

\* a conversion that drops the targeting test
convertRulesyncDirsToToolDirs_untargeted(rulesyncDirs, target, isGlobal) ==
    LET IsRulesyncSkill(dir) == dir.kind = "RulesyncSkill"
        rulesyncSkills == SelectSeq(rulesyncDirs, IsRulesyncSkill)
        factory == defaultGetFactory(target, isGlobal)
    IN  IF factory.status = "throw" THEN factory
        ELSE LET class == factory.value.class
                 Convert(s) == fromRulesyncSkill(class, s, isGlobal)
             IN Ok(MapSeq(rulesyncSkills, Convert))

\* a conversion with the targeting test negated
convertRulesyncDirsToToolDirs_inverted(rulesyncDirs, target, isGlobal) ==
    LET IsRulesyncSkill(dir) == dir.kind = "RulesyncSkill"
        rulesyncSkills == SelectSeq(rulesyncDirs, IsRulesyncSkill)
        factory == defaultGetFactory(target, isGlobal)
    IN  IF factory.status = "throw" THEN factory
        ELSE LET class == factory.value.class
                 NotTargeted(s) == ~isTargetedByRulesyncSkill(class, s)
                 Convert(s) == fromRulesyncSkill(class, s, isGlobal)
             IN Ok(MapSeq(SelectSeq(rulesyncSkills, NotTargeted), Convert))

\* SkillsProcessor.convertRulesyncDirsToToolDirs(rulesyncDirs)
convertRulesyncDirsToToolDirs(rulesyncDirs, target, isGlobal) ==
    LET IsRulesyncSkill(dir) == dir.kind = "RulesyncSkill"
        rulesyncSkills == SelectSeq(rulesyncDirs, IsRulesyncSkill)
        factory == defaultGetFactory(target, isGlobal)
    IN  IF factory.status = "throw" THEN factory
        ELSE LET class == factory.value.class
                 Targeted(s) == isTargetedByRulesyncSkill(class, s)
                 Convert(s) == fromRulesyncSkill(class, s, isGlobal)
             IN Ok(MapSeq(SelectSeq(rulesyncSkills, Targeted), Convert))

\* the loop of convertToolDirsToRulesyncDirs over toolSkills[i..]: the
\* canonical skills pushed so far, or the first error thrown
RECURSIVE ConvertToolSkillsFrom(_, _, _, _)
ConvertToolSkillsFrom(toolSkills, i, rulesyncSkills, skipSimulated) ==
    IF i > Len(toolSkills) THEN Ok(rulesyncSkills)
    ELSE IF skipSimulated /\ IsSimulatedSkill(toolSkills[i].kind)
         THEN ConvertToolSkillsFrom(toolSkills, i + 1, rulesyncSkills, skipSimulated)
         ELSE LET r == toRulesyncSkill(toolSkills[i])
              IN IF r.status = "throw" THEN r
                 ELSE ConvertToolSkillsFrom(toolSkills, i + 1,
                                            Append(rulesyncSkills, r.value),
                                            skipSimulated)

\* a reverse conversion without the SimulatedSkill skip
convertToolDirsToRulesyncDirs_noSkip(toolDirs) ==
    LET IsToolSkillDir(dir) == IsToolSkill(dir.kind)
    IN ConvertToolSkillsFrom(SelectSeq(toolDirs, IsToolSkillDir), 1, <<>>, FALSE)

\* SkillsProcessor.convertToolDirsToRulesyncDirs(toolDirs)
convertToolDirsToRulesyncDirs(toolDirs) ==
    LET IsToolSkillDir(dir) == IsToolSkill(dir.kind)
    IN ConvertToolSkillsFrom(SelectSeq(toolDirs, IsToolSkillDir), 1, <<>>, TRUE)

\* the debug lines of convertToolDirsToRulesyncDirs: one per skipped skill
SkippedSimulatedLog(toolDirs) ==
    LET IsSkipped(dir) == IsToolSkill(dir.kind) /\ IsSimulatedSkill(dir.kind)
        Line(dir) == [level |-> "debug", what |-> "Skipping simulated skill conversion",
                      n |-> dir.dirName]
    IN MapSeq(SelectSeq(toolDirs, IsSkipped), Line)

-----------------------------------------------------------------------------
(* SkillsProcessor.loadToolDirs and loadRulesyncDirs *)

\* factory.class.getSettablePaths({global}): CodexCliSimulatedSkill's is the
\* code above; another class answers what the disk record says it answers
SkillSettablePaths(class, isGlobal, disk) ==
    IF class = "CodexCliSimulatedSkill"
    THEN CodexCliSimulatedSkill_getSettablePaths(isGlobal)
    ELSE disk.settablePaths

\* the SKILL.md of a skill: its frontmatter block, then its body
SkillFileContent(frontmatter, body) ==
    <<[part |-> "frontmatter", items |-> <<frontmatter.name, frontmatter.description>>],
      [part |-> "body", items |-> <<body>>]>>

\* the frontmatter and the body parsed from a SKILL.md
ParsedSkillFile(fileContent) ==
    [frontmatter |-> [name |-> fileContent[1].items[1],
                      description |-> fileContent[1].items[2]],
     body |-> fileContent[2].items[1]]

\* <Class>.fromDir({dirName, global}): the skill of a directory, or the
\* error of parsing its SKILL.md
fromDir(class, dir, isGlobal) ==
    IF dir.valid
    THEN Ok([kind |-> class, dirName |-> dir.dirName, targets |-> Absent,
             frontmatter |-> ParsedSkillFile(dir.file).frontmatter,
             body |-> ParsedSkillFile(dir.file).body])
    ELSE Throw("Invalid frontmatter")

\* Promise.all over fromDir: every skill in the order of dirNames, or the
\* error of a directory that failed
FromDirs(class, dirs, isGlobal) ==
    IF \E i \in 1..Len(dirs) : ~dirs[i].valid
    THEN Throw("Invalid frontmatter")
    ELSE Ok([i \in 1..Len(dirs) |-> fromDir(class, dirs[i], isGlobal).value])

\* SkillsProcessor.loadToolDirs(), given what is on disk
loadToolDirs(disk, target, isGlobal) ==
    LET factory == defaultGetFactory(target, isGlobal)
    IN  IF factory.status = "throw" THEN factory
        ELSE LET paths == SkillSettablePaths(factory.value.class, isGlobal, disk)
             IN IF paths.status = "throw" THEN paths
                ELSE FromDirs(factory.value.class, disk.dirs, isGlobal)

\* a load for deletion that returns [] where the plain load fails
loadToolDirsToDelete_swallow(disk, target, isGlobal) ==
    LET loaded == loadToolDirs(disk, target, isGlobal)
    IN IF loaded.status = "throw" THEN Ok(<<>>) ELSE loaded

\* SkillsProcessor.loadToolDirsToDelete(): return this.loadToolDirs()
loadToolDirsToDelete(disk, target, isGlobal) == loadToolDirs(disk, target, isGlobal)

\* DirFeatureProcessor.writeAiDirs(toolDirs): the directories on disk after
\* it wrote each skill's SKILL.md into an empty skills directory of the tool;
\* the tool's class resolves its directory in the modes the registry says
\* it supports
writeAiDirs(toolDirs, target, isGlobal) ==
    LET Written(toolSkill) ==
            [dirName |-> toolSkill.dirName, valid |-> TRUE,
             file |-> SkillFileContent(toolSkill.frontmatter, toolSkill.body)]
    IN [settablePaths |->
            IF isGlobal /\ ~toolSkillFactories[target].meta.supportsGlobal
            THEN Throw("does not support global mode") ELSE Ok("skills"),
        dirs |-> MapSeq(toolDirs, Written)]

\* what a skills load logs: the number of skills, when it loaded them
loadDirsLog(loaded) ==
    IF loaded.status = "throw" THEN <<>>
    ELSE <<[level |-> "info", what |-> "Successfully loaded skills",
            n |-> Len(loaded.value)]>>

-----------------------------------------------------------------------------
(* Inputs of the skills operations *)

\* the frontmatter and the body of the skills of the arrays below
SomeFrontmatter == [name |-> "skill", description |-> "about"]

SomeBody == "body"

\* tool identifiers that have no entry in toolSkillFactories
UnregisteredSkillTargets == {"roo", "unsupported"}

\* the skill directories a glob may find, each with its own name: each
\* parses or does not
SkillDirLists ==
    UNION {{[i \in 1..n |-> [dirName |-> i, valid |-> f[i],
                             file |-> SkillFileContent(SomeFrontmatter, SomeBody)]] :
                f \in [1..n -> BOOLEAN]} : n \in 0..MaxDirs}

\* what getSettablePaths of a class other than CodexCliSimulatedSkill may
\* answer: an error, or its skills directory
SkillSettablePathsChoices ==
    {Throw("does not support global mode"), Ok("skills")}

\* what loadToolDirs may find on disk
SkillDisks == [settablePaths : SkillSettablePathsChoices, dirs : SkillDirLists]

\* the targets a canonical skill's frontmatter may carry
SkillTargetChoices ==
    {Absent, Some({"*"}), Some({"claudecode"}), Some({"codexcli", "cursor"})}

\* what an element of a rulesyncDirs array may be: a RulesyncSkill with some
\* targets, or a directory of another type
RulesyncDirKinds ==
    [kind : {"RulesyncSkill"}, targets : SkillTargetChoices]
        \cup [kind : {"Other"}, targets : {Absent}]

\* the options getSettablePaths may be called with: none, {} or {global}
GetSettablePathsOptions ==
    {Absent} \cup {Some([global |-> g]) : g \in {Absent, Some(FALSE), Some(TRUE)}}

\* the argument getToolTargets may be called with: none, or an object with
\* each of global and includeSimulated given or not
GetToolTargetsOptions ==
    {Absent} \cup {Some(o) : o \in [global : {Absent, Some(FALSE), Some(TRUE)},
                                     includeSimulated : {Absent, Some(FALSE), Some(TRUE)}]}

\* what an element of a toolDirs array may be
ToolDirKinds == ToolSkillClasses \cup {"Other"}

\* the arrays of canonical directories, each with its own directory name
RulesyncDirArrays ==
    UNION {{[i \in 1..n |-> [kind |-> f[i].kind, dirName |-> i, targets |-> f[i].targets,
                             frontmatter |-> SomeFrontmatter, body |-> SomeBody]] :
                f \in [1..n -> RulesyncDirKinds]} : n \in 0..MaxDirs}

\* the arrays of tool directories, each with its own directory name
ToolDirArrays ==
    UNION {{[i \in 1..n |-> [kind |-> f[i], dirName |-> i, targets |-> Absent,
                             frontmatter |-> SomeFrontmatter, body |-> SomeBody]] :
                f \in [1..n -> ToolDirKinds]} : n \in 0..MaxDirs}

-----------------------------------------------------------------------------
(* The skills actions *)

\* a direct registry lookup
GetFactory ==
    /\ call = "idle"
    /\ \E t \in SkillsProcessorToolTarget, g \in BOOLEAN :
          /\ arg' = [target |-> t, global |-> g]
          /\ ret' = defaultGetFactory(t, g)
    /\ call' = "defaultGetFactory"
    /\ log' = <<>>
    /\ UNCHANGED config

ConvertRulesyncDirsToToolDirs ==
    /\ call = "idle"
    /\ \E dirs \in RulesyncDirArrays :
          /\ arg' = dirs
          /\ ret' = convertRulesyncDirsToToolDirs(dirs, toolTarget, global)
    /\ call' = "convertRulesyncDirsToToolDirs"
    /\ log' = <<>>
    /\ UNCHANGED config

ConvertToolDirsToRulesyncDirs ==
    /\ call = "idle"
    /\ toolTarget \in SkillsProcessorToolTarget
    /\ \E dirs \in ToolDirArrays :
          /\ arg' = dirs
          /\ ret' = convertToolDirsToRulesyncDirs(dirs)
          /\ log' = SkippedSimulatedLog(dirs)
    /\ call' = "convertToolDirsToRulesyncDirs"
    /\ UNCHANGED config

\* toRulesyncSkill called on one tool skill
ToRulesyncSkill ==
    /\ call = "idle"
    /\ \E c \in ToolSkillClasses, n \in 1..MaxDirs :
          LET toolSkill == [kind |-> c, dirName |-> n, targets |-> Absent,
                            frontmatter |-> SomeFrontmatter, body |-> SomeBody]
          IN  /\ arg' = toolSkill
              /\ ret' = toRulesyncSkill(toolSkill)
    /\ call' = "toRulesyncSkill"
    /\ log' = <<>>
    /\ UNCHANGED config

\* CodexCliSimulatedSkill.getSettablePaths called with some options
GetSettablePaths ==
    /\ call = "idle"
    /\ \E options \in GetSettablePathsOptions :
          /\ arg' = options
          /\ ret' = CodexCliSimulatedSkill_getSettablePaths(OptionsGlobal(options))
    /\ call' = "getSettablePaths"
    /\ log' = <<>>
    /\ UNCHANGED config

\* the static SkillsProcessor.getToolTargets; the parameter defaults to {}
\* and each of its properties to false
GetToolTargets ==
    /\ call = "idle"
    /\ \E options \in GetToolTargetsOptions :
          LET given == OrDefault(options, [global |-> Absent, includeSimulated |-> Absent])
          IN  /\ arg' = options
              /\ ret' = Ok(getToolTargets(OrDefault(given.global, FALSE),
                                          OrDefault(given.includeSimulated, FALSE)))
    /\ call' = "getToolTargets"
    /\ log' = <<>>
    /\ UNCHANGED config

GetToolTargetsSimulated ==
    /\ call = "idle"
    /\ arg' = <<>>
    /\ ret' = Ok(getToolTargetsSimulated)
    /\ call' = "getToolTargetsSimulated"
    /\ log' = <<>>
    /\ UNCHANGED config

GetToolTargetsGlobal ==
    /\ call = "idle"
    /\ arg' = <<>>
    /\ ret' = Ok(getToolTargetsGlobal)
    /\ call' = "getToolTargetsGlobal"
    /\ log' = <<>>
    /\ UNCHANGED config

InitSkills ==
    /\ toolTarget \in SkillsProcessorToolTarget
    /\ global \in BOOLEAN
    /\ simulateCommands = FALSE
    /\ simulateSubagents = FALSE
    /\ simulateSkills = FALSE
    /\ call = "idle"
    /\ arg = <<>>
    /\ ret = Ok(<<>>)
    /\ log = <<>>

\* the caller has taken the outcome of the last call; the processor's fields
\* are readonly, so it is as it was after construction
Return ==
    /\ call # "idle"
    /\ call' = "idle"
    /\ arg' = <<>>
    /\ ret' = Ok(<<>>)
    /\ log' = <<>>
    /\ UNCHANGED config

NextSkills ==
    \/ Return
    \/ GetFactory
    \/ ConvertRulesyncDirsToToolDirs
    \/ ConvertToolDirsToRulesyncDirs
    \/ ToRulesyncSkill
    \/ GetSettablePaths
    \/ GetToolTargets
    \/ GetToolTargetsSimulated
    \/ GetToolTargetsGlobal

SpecSkills == InitSkills /\ [][NextSkills]_vars

\* a direct registry lookup of any tool identifier
GetFactoryOfAny ==
    /\ call = "idle"
    /\ \E t \in SkillsProcessorToolTarget \cup UnregisteredSkillTargets, g \in BOOLEAN :
          /\ arg' = [target |-> t, global |-> g]
          /\ ret' = defaultGetFactory(t, g)
    /\ call' = "getFactory"
    /\ log' = <<>>
    /\ UNCHANGED config

LoadToolDirs ==
    /\ call = "idle"
    /\ \E disk \in SkillDisks :
          /\ arg' = disk
          /\ ret' = loadToolDirs(disk, toolTarget, global)
          /\ log' = loadDirsLog(loadToolDirs(disk, toolTarget, global))
    /\ call' = "loadToolDirs"
    /\ UNCHANGED config

LoadToolDirsToDelete ==
    /\ call = "idle"
    /\ \E disk \in SkillDisks :
          /\ arg' = disk
          /\ ret' = loadToolDirsToDelete(disk, toolTarget, global)
          /\ log' = loadDirsLog(loadToolDirsToDelete(disk, toolTarget, global))
    /\ call' = "loadToolDirsToDelete"
    /\ UNCHANGED config

\* the canonical skills that are written and read back
CanonicalSkills ==
    [kind : {"RulesyncSkill"}, dirName : {1}, targets : SkillTargetChoices,
     frontmatter : [name : {"skill", "test-skill"}, description : {"about", ""}],
     body : {"body", ""}]

\* the round trip, first step: one canonical skill is converted
ConvertCanonicalSkill ==
    /\ call = "idle"
    /\ \E skill \in CanonicalSkills :
          /\ arg' = [canonical |-> <<skill>>,
                     disk |-> [settablePaths |-> Ok("skills"), dirs |-> <<>>],
                     loaded |-> <<>>]
          /\ ret' = convertRulesyncDirsToToolDirs(<<skill>>, toolTarget, global)
    /\ call' = "convertRulesyncDirsToToolDirs"
    /\ log' = <<>>
    /\ UNCHANGED config

\* second step: the tool skills it returned are written
WriteAiDirs ==
    /\ call = "convertRulesyncDirsToToolDirs"
    /\ ret.status = "ok"
    /\ arg' = [arg EXCEPT !.disk = writeAiDirs(ret.value, toolTarget, global)]
    /\ ret' = Ok(Len(ret.value))
    /\ call' = "writeAiDirs"
    /\ log' = <<>>
    /\ UNCHANGED config

\* third step: the tool's skills are loaded from what was written
LoadWrittenToolDirs ==
    /\ call = "writeAiDirs"
    /\ ret' = loadToolDirs(arg.disk, toolTarget, global)
    /\ log' = loadDirsLog(loadToolDirs(arg.disk, toolTarget, global))
    /\ call' = "loadToolDirs"
    /\ UNCHANGED <<config, arg>>

\* fourth step: the loaded tool skills are converted back
ConvertLoadedToolDirs ==
    /\ call = "loadToolDirs"
    /\ ret.status = "ok"
    /\ arg' = [arg EXCEPT !.loaded = ret.value]
    /\ ret' = convertToolDirsToRulesyncDirs(ret.value)
    /\ log' = SkippedSimulatedLog(ret.value)
    /\ call' = "convertToolDirsToRulesyncDirs"
    /\ UNCHANGED config

NextSkillsRoundTrip ==
    \/ Return
    \/ ConvertCanonicalSkill
    \/ WriteAiDirs
    \/ LoadWrittenToolDirs
    \/ ConvertLoadedToolDirs

SpecSkillsRoundTrip == InitSkills /\ [][NextSkillsRoundTrip]_vars

\* a SkillsProcessor made without its constructor, as the tests make one
\* (Object.create(SkillsProcessor.prototype)): toolTarget is not validated
InitSkillsUnvalidated ==
    /\ toolTarget \in SkillsProcessorToolTarget \cup UnregisteredSkillTargets
    /\ global \in BOOLEAN
    /\ simulateCommands = FALSE
    /\ simulateSubagents = FALSE
    /\ simulateSkills = FALSE
    /\ call = "idle"
    /\ arg = <<>>
    /\ ret = Ok(<<>>)
    /\ log = <<>>

NextSkillsUnvalidated ==
    \/ Return
    \/ GetFactoryOfAny
    \/ ConvertRulesyncDirsToToolDirs
    \/ LoadToolDirs
    \/ LoadToolDirsToDelete

SpecSkillsUnvalidated == InitSkillsUnvalidated /\ [][NextSkillsUnvalidated]_vars

-----------------------------------------------------------------------------
(* The rules registry *)

rulesProcessorToolTargets ==
    <<"agentsmd", "amazonqcli", "antigravity", "augmentcode", "augmentcode-legacy",
      "claudecode", "cline", "codexcli", "copilot", "cursor", "geminicli", "junie",
      "kiro", "opencode", "qwencode", "roo", "warp", "windsurf">>

RulesProcessorToolTarget ==
    {rulesProcessorToolTargets[i] : i \in 1..Len(rulesProcessorToolTargets)}

rulesProcessorToolTargetsGlobal == <<"claudecode", "codexcli", "geminicli">>

\* the rule class registered for each tool
toolRuleFactories ==
    [t \in RulesProcessorToolTarget |->
        [class |-> CASE t = "agentsmd" -> "AgentsMdRule"
                     [] t = "amazonqcli" -> "AmazonQCliRule"
                     [] t = "antigravity" -> "AntigravityRule"
                     [] t = "augmentcode" -> "AugmentcodeRule"
                     [] t = "augmentcode-legacy" -> "AugmentcodeLegacyRule"
                     [] t = "claudecode" -> "ClaudecodeRule"
                     [] t = "cline" -> "ClineRule"
                     [] t = "codexcli" -> "CodexcliRule"
                     [] t = "copilot" -> "CopilotRule"
                     [] t = "cursor" -> "CursorRule"
                     [] t = "geminicli" -> "GeminiCliRule"
                     [] t = "junie" -> "JunieRule"
                     [] t = "kiro" -> "KiroRule"
                     [] t = "opencode" -> "OpenCodeRule"
                     [] t = "qwencode" -> "QwencodeRule"
                     [] t = "roo" -> "RooRule"
                     [] t = "warp" -> "WarpRule"
                     [] t = "windsurf" -> "WindsurfRule",
         meta |-> [extension |-> IF t = "cursor" THEN "mdc" ELSE "md"]]]

\* the rules processor's defaultGetFactory(target)
rulesGetFactory(target) ==
    IF target \notin DOMAIN toolRuleFactories
    THEN Throw("Unsupported tool target: " \o target)
    ELSE Ok(toolRuleFactories[target])

\* RulesProcessor.getToolTargets({global}): the two literal arrays
rulesGetToolTargets(isGlobal) ==
    IF isGlobal THEN rulesProcessorToolTargetsGlobal ELSE rulesProcessorToolTargets

\* CommandsProcessor.getToolTargetsSimulated()
commandsProcessorToolTargetsSimulated == {"agentsmd"}

\* SubagentsProcessor.getToolTargetsSimulated()
subagentsProcessorToolTargetsSimulated ==
    {"agentsmd", "codexcli", "copilot", "cursor", "geminicli", "roo"}


-----------------------------------------------------------------------------
(* Rule documents *)

\* <Class>.isTargetedByRulesyncRule(rulesyncRule)
isTargetedByRulesyncRule(target, rulesyncRule) ==
    \/ rulesyncRule.targets = Absent
    \/ "*" \in rulesyncRule.targets[1]
    \/ target \in rulesyncRule.targets[1]

\* the body of the canonical rule of a name, which is the file content of a
\* tool rule converted from it or loaded for it
BodyOf(name) == <<[part |-> "body", items |-> <<name>>]>>

\* <Class>.fromRulesyncRule({rulesyncRule, global}): the tool rule of a
\* canonical rule, root if the canonical rule is
fromRulesyncRule(class, rulesyncRule, isGlobal) ==
    [kind |-> class, name |-> rulesyncRule.name, root |-> rulesyncRule.root,
     content |-> rulesyncRule.body]

\* toolRule.isRoot()
isRoot(toolRule) == toolRule.root

\* toolRule.setFileContent(content)
setFileContent(toolRule, content) == [toolRule EXCEPT !.content = content]

\* CodexCliSkill.getSettablePaths({global: true})
CodexCliSkill_getSettablePaths(optGlobal) == Ok(".codex/skills")

-----------------------------------------------------------------------------
(* The generated sections *)

\* the non-root rules listed last first
ReferencedNames_reversed(toolRules) ==
    LET NonRoot(r) == ~isRoot(r)
        nonRoot == SelectSeq(toolRules, NonRoot)
    IN [i \in 1..Len(nonRoot) |-> nonRoot[Len(nonRoot) + 1 - i].name]

\* the path of each non-root rule, in the order of toolRules
ReferencedNames(toolRules) ==
    LET NonRoot(r) == ~isRoot(r)
        Name(r) == r.name
    IN MapSeq(SelectSeq(toolRules, NonRoot), Name)

\* RulesProcessor.generateToonReferencesSection(toolRules)
generateToonReferencesSection(toolRules) ==
    IF ReferencedNames(toolRules) = <<>> THEN <<>>
    ELSE <<[part |-> "toonReferences", items |-> ReferencedNames(toolRules)]>>

\* RulesProcessor.generateReferencesSection(toolRules)
generateReferencesSection(toolRules) ==
    IF ReferencedNames(toolRules) = <<>> THEN <<>>
    ELSE <<[part |-> "references", items |-> ReferencedNames(toolRules)]>>

\* the section text of a feature: its instructions when the caller passed the
\* feature's directory, the empty string otherwise
SectionText(passed, instructions) == IF passed THEN instructions ELSE ""

\* a conventions block that is the empty string when it has no section
generateAdditionalConventionsSection_onlyWithSections(passed, target, simCommands, simSubagents, simSkills) ==
    LET sections ==
            (IF simCommands /\ target \in commandsProcessorToolTargetsSimulated
             THEN <<SectionText(passed.commands, "commands")>> ELSE <<>>)
         \o (IF simSubagents /\ target \in subagentsProcessorToolTargetsSimulated
             THEN <<SectionText(passed.subagents, "subagents")>> ELSE <<>>)
         \o (IF simSkills /\ Includes(skillsProcessorToolTargetsSimulated, target)
             THEN <<SectionText(passed.skills, "skills")>> ELSE <<>>)
    IN IF sections = <<>> THEN <<>>
       ELSE <<[part |-> "additionalConventions", items |-> <<"overview">> \o sections]>>

\* RulesProcessor.generateAdditionalConventionsSection({commands, subagents,
\* skills}): the elements joined by blank lines; passed says which of the
\* three directories the caller passed
generateAdditionalConventionsSection(passed, target, simCommands, simSubagents, simSkills) ==
    <<[part |-> "additionalConventions",
       items |-> <<"overview">>
         \o (IF simCommands /\ target \in commandsProcessorToolTargetsSimulated
             THEN <<SectionText(passed.commands, "commands")>> ELSE <<>>)
         \o (IF simSubagents /\ target \in subagentsProcessorToolTargetsSimulated
             THEN <<SectionText(passed.subagents, "subagents")>> ELSE <<>>)
         \o (IF simSkills /\ Includes(skillsProcessorToolTargetsSimulated, target)
             THEN <<SectionText(passed.skills, "skills")>> ELSE <<>>)]>>

\* the directories each call site passes to generateAdditionalConventionsSection
PassedDirs(target) ==
    CASE target = "cursor" -> [commands |-> TRUE, subagents |-> TRUE, skills |-> TRUE]
      [] target = "roo" -> [commands |-> TRUE, subagents |-> TRUE, skills |-> FALSE]
      [] target = "agentsmd" -> [commands |-> TRUE, subagents |-> TRUE, skills |-> FALSE]
      [] target = "codexcli" -> [commands |-> FALSE, subagents |-> TRUE, skills |-> TRUE]
      [] target = "copilot" -> [commands |-> TRUE, subagents |-> TRUE, skills |-> TRUE]
      [] target = "geminicli" -> [commands |-> TRUE, subagents |-> TRUE, skills |-> FALSE]
      [] OTHER -> [commands |-> FALSE, subagents |-> FALSE, skills |-> FALSE]

-----------------------------------------------------------------------------
(* RulesProcessor.convertRulesyncFilesToToolFiles *)

\* the synthetic additional-conventions rule pushed for cursor and for roo
AdditionalConventionsRule(target, simCommands, simSubagents, simSkills) ==
    [kind |-> toolRuleFactories[target].class, name |-> "additional-conventions",
     root |-> FALSE,
     content |-> generateAdditionalConventionsSection(
                    PassedDirs(target), target, simCommands, simSubagents, simSkills)]

\* a conversion that pushes the synthetic rule whether or not a flag is set
WithAdditionalConventionsRule_always(toolRules, target, simCommands, simSubagents, simSkills) ==
    IF target \in {"cursor", "roo"}
    THEN Append(toolRules,
                AdditionalConventionsRule(target, simCommands, simSubagents, simSkills))
    ELSE toolRules

\* toolRules after the two pushes for cursor and roo
WithAdditionalConventionsRule(toolRules, target, simCommands, simSubagents, simSkills) ==
    LET isSimulated == simCommands \/ simSubagents \/ simSkills
    IN IF isSimulated /\ target \in {"cursor", "roo"}
       THEN Append(toolRules,
                   AdditionalConventionsRule(target, simCommands, simSubagents, simSkills))
       ELSE toolRules

\* a codexcli case that asks the simulated class in both modes, passing the
\* mode on
CodexCliSkillsDir_simulatedInBothModes(isGlobal) ==
    CodexCliSimulatedSkill_getSettablePaths(isGlobal)

\* the skills directory the codexcli case passes: native in global mode,
\* simulated in project mode
CodexCliSkillsDir(isGlobal) ==
    IF isGlobal THEN CodexCliSkill_getSettablePaths(TRUE)
    ELSE CodexCliSimulatedSkill_getSettablePaths(FALSE)

\* an injection that puts the generated sections after the root rule's content
RootFileContent_appended(toolRules, rootRule, target, simCommands, simSubagents, simSkills) ==
    LET toon == generateToonReferencesSection(toolRules)
        conventions == generateAdditionalConventionsSection(
                          PassedDirs(target), target, simCommands, simSubagents, simSkills)
    IN CASE target \in {"agentsmd", "codexcli", "geminicli"} ->
                rootRule.content \o toon \o conventions
         [] target \in {"augmentcode-legacy", "kiro", "opencode", "qwencode", "warp"} ->
                rootRule.content \o toon
         [] target = "claudecode" ->
                rootRule.content \o generateReferencesSection(toolRules)
         [] target = "copilot" -> rootRule.content \o conventions
         [] OTHER -> rootRule.content

\* the switch on this.toolTarget: the file content set on the root rule
RootFileContent(toolRules, rootRule, target, simCommands, simSubagents, simSkills) ==
    LET toon == generateToonReferencesSection(toolRules)
        conventions == generateAdditionalConventionsSection(
                          PassedDirs(target), target, simCommands, simSubagents, simSkills)
    IN CASE target \in {"agentsmd", "codexcli", "geminicli"} ->
                toon \o conventions \o rootRule.content
         [] target \in {"augmentcode-legacy", "kiro", "opencode", "qwencode", "warp"} ->
                toon \o rootRule.content
         [] target = "claudecode" ->
                generateReferencesSection(toolRules) \o rootRule.content
         [] target = "copilot" -> conventions \o rootRule.content
         [] OTHER -> rootRule.content

\* a conversion that sets the file content of every root rule
convertRulesyncFilesToToolFiles_everyRoot(rulesyncFiles, target, isGlobal, simCommands, simSubagents, simSkills) ==
    LET IsRulesyncRule(file) == file.kind = "RulesyncRule"
        rulesyncRules == SelectSeq(rulesyncFiles, IsRulesyncRule)
        factory == rulesGetFactory(target)
    IN  IF factory.status = "throw" THEN factory
        ELSE
        LET Targeted(r) == isTargetedByRulesyncRule(target, r)
            Convert(r) == fromRulesyncRule(factory.value.class, r, isGlobal)
            converted == MapSeq(SelectSeq(rulesyncRules, Targeted), Convert)
            toolRules == WithAdditionalConventionsRule(
                            converted, target, simCommands, simSubagents, simSkills)
        IN  IF target = "codexcli" /\ CodexCliSkillsDir(isGlobal).status = "throw"
            THEN CodexCliSkillsDir(isGlobal)
            ELSE Ok([i \in 1..Len(toolRules) |->
                        IF isRoot(toolRules[i])
                        THEN setFileContent(toolRules[i],
                                RootFileContent(toolRules, toolRules[i], target,
                                                simCommands, simSubagents, simSkills))
                        ELSE toolRules[i]])

\* RulesProcessor.convertRulesyncFilesToToolFiles(rulesyncFiles)
convertRulesyncFilesToToolFiles(rulesyncFiles, target, isGlobal, simCommands, simSubagents, simSkills) ==
    LET IsRulesyncRule(file) == file.kind = "RulesyncRule"
        rulesyncRules == SelectSeq(rulesyncFiles, IsRulesyncRule)
        factory == rulesGetFactory(target)
    IN  IF factory.status = "throw" THEN factory
        ELSE
        LET Targeted(r) == isTargetedByRulesyncRule(target, r)
            Convert(r) == fromRulesyncRule(factory.value.class, r, isGlobal)
            converted == MapSeq(SelectSeq(rulesyncRules, Targeted), Convert)
            toolRules == WithAdditionalConventionsRule(
                            converted, target, simCommands, simSubagents, simSkills)
            rootRuleIndex == FindIndex(toolRules, isRoot)
        IN  IF rootRuleIndex = 0 THEN Ok(toolRules)
            ELSE IF target = "codexcli" /\ CodexCliSkillsDir(isGlobal).status = "throw"
            THEN CodexCliSkillsDir(isGlobal)
            ELSE Ok([toolRules EXCEPT ![rootRuleIndex] =
                        setFileContent(toolRules[rootRuleIndex],
                            RootFileContent(toolRules, toolRules[rootRuleIndex], target,
                                            simCommands, simSubagents, simSkills))])

-----------------------------------------------------------------------------
(* RulesProcessor.loadRulesyncFiles *)

\* a load that filters for global mode before it counts the root rules
loadRulesyncFiles_filterFirst(rulesyncRules, isGlobal) ==
    LET IsRootRule(rule) == rule.root
        rootRules == SelectSeq(rulesyncRules, IsRootRule)
    IN  IF isGlobal THEN Ok(IF rootRules = <<>> THEN <<>> ELSE <<rootRules[1]>>)
        ELSE IF Len(rootRules) > 1 THEN Throw("Multiple root rulesync rules found")
        ELSE Ok(rulesyncRules)

\* a load that returns every rule in global mode too
loadRulesyncFiles_noGlobalFilter(rulesyncRules, isGlobal) ==
    LET IsRootRule(rule) == rule.root
        rootRules == SelectSeq(rulesyncRules, IsRootRule)
    IN  IF Len(rootRules) > 1 THEN Throw("Multiple root rulesync rules found")
        ELSE Ok(rulesyncRules)

\* RulesProcessor.loadRulesyncFiles(), given the rules read from
\* .rulesync/rules/*.md
loadRulesyncFiles(rulesyncRules, isGlobal) ==
    LET IsRootRule(rule) == rule.root
        rootRules == SelectSeq(rulesyncRules, IsRootRule)
    IN  IF Len(rootRules) > 1 THEN Throw("Multiple root rulesync rules found")
        ELSE IF isGlobal THEN Ok(rootRules)
        ELSE Ok(rulesyncRules)

\* what loadRulesyncFiles logs: the number of files found and, in global mode,
\* the number of non-root rules it ignores when there are some
loadRulesyncFilesLog(rulesyncRules, isGlobal) ==
    LET IsRootRule(rule) == rule.root
        IsNonRootRule(rule) == ~rule.root
        rootRules == SelectSeq(rulesyncRules, IsRootRule)
        nonRootRules == SelectSeq(rulesyncRules, IsNonRootRule)
        found == <<[level |-> "debug", what |-> "Found rulesync files",
                    n |-> Len(rulesyncRules)]>>
    IN  IF Len(rootRules) <= 1 /\ isGlobal /\ Len(nonRootRules) > 0
        THEN found \o <<[level |-> "warn", what |-> "non-root rulesync rules ignored",
                         n |-> Len(nonRootRules)]>>
        ELSE found

-----------------------------------------------------------------------------
(* RulesProcessor.loadToolFiles *)

\* <Class>.fromFile({relativeFilePath}): the tool rule of a file, or the
\* error of parsing it
fromFile(class, file, asRoot) ==
    IF file.valid
    THEN Ok([kind |-> class, name |-> file.name, root |-> asRoot,
             content |-> BodyOf(file.name)])
    ELSE Throw("Invalid frontmatter")

\* Promise.all over fromFile: every tool rule in the order of the paths, or
\* the error of a file that failed
FromFiles(class, files, asRoot) ==
    IF \E i \in 1..Len(files) : ~files[i].valid
    THEN Throw("Invalid frontmatter")
    ELSE Ok([i \in 1..Len(files) |-> fromFile(class, files[i], asRoot).value])

\* the body of the try block of loadToolFiles
LoadToolFilesTry(disk, target) ==
    LET factory == rulesGetFactory(target)
    IN  IF factory.status = "throw" THEN factory
        ELSE IF disk.settablePaths.status = "throw" THEN disk.settablePaths
        ELSE
        LET settablePaths == disk.settablePaths.value
            rootToolRules ==
                IF ~settablePaths.root THEN Ok(<<>>)
                ELSE FromFiles(factory.value.class, disk.rootFiles, TRUE)
            nonRootToolRules ==
                IF ~settablePaths.nonRoot THEN Ok(<<>>)
                ELSE FromFiles(factory.value.class, disk.nonRootFiles, FALSE)
        IN  IF rootToolRules.status = "throw" THEN rootToolRules
            ELSE IF nonRootToolRules.status = "throw" THEN nonRootToolRules
            ELSE Ok(rootToolRules.value \o nonRootToolRules.value)

\* a load that, for deletion, keeps the non-root rules only
loadToolFiles_deletionFilter(disk, target, forDeletion) ==
    LET tried == LoadToolFilesTry(disk, target)
        NonRoot(r) == ~isRoot(r)
    IN IF tried.status = "throw" THEN Ok(<<>>)
       ELSE IF forDeletion THEN Ok(SelectSeq(tried.value, NonRoot))
       ELSE tried

\* a load that lets the error out when it is not loading for deletion
loadToolFiles_failFast(disk, target, forDeletion) ==
    LET tried == LoadToolFilesTry(disk, target)
    IN IF tried.status = "throw" /\ forDeletion THEN Ok(<<>>) ELSE tried

\* a load that skips the files that fail to parse
loadToolFiles_skipCorrupt(disk, target, forDeletion) ==
    LET IsValid(file) == file.valid
        readable == [disk EXCEPT !.rootFiles = SelectSeq(disk.rootFiles, IsValid),
                                 !.nonRootFiles = SelectSeq(disk.nonRootFiles, IsValid)]
        tried == LoadToolFilesTry(readable, target)
    IN IF tried.status = "throw" THEN Ok(<<>>) ELSE tried

\* RulesProcessor.loadToolFiles({forDeletion}): the try block, and the catch
\* that returns [] for any error; forDeletion is not read
loadToolFiles(disk, target, forDeletion) ==
    LET tried == LoadToolFilesTry(disk, target)
    IN IF tried.status = "throw" THEN Ok(<<>>) ELSE tried

\* what loadToolFiles logs: the two counts, or the error it caught
loadToolFilesLog(disk, target) ==
    LET tried == LoadToolFilesTry(disk, target)
    IN  IF tried.status = "throw"
        THEN <<[level |-> "error", what |-> "Failed to load tool files", n |-> 0]>>
        ELSE LET IsRootRule(r) == r.root
                 nRoot == Len(SelectSeq(tried.value, IsRootRule))
             IN <<[level |-> "debug", what |-> "Found root tool rule files", n |-> nRoot],
                  [level |-> "debug", what |-> "Found non-root tool rule files",
                   n |-> Len(tried.value) - nRoot]>>

-----------------------------------------------------------------------------
(* Inputs of the rules operations *)

\* the targets a canonical rule's frontmatter may carry
RuleTargetChoices == {Absent, Some({"*"}), Some({"claudecode", "copilot", "cursor"})}

\* what an element of a rulesyncFiles array may be: a RulesyncRule, root or
\* not, with some targets, or a file of another type
RulesyncFileKinds ==
    [kind : {"RulesyncRule"}, root : BOOLEAN, targets : RuleTargetChoices]
        \cup [kind : {"Other"}, root : {FALSE}, targets : {Absent}]

\* the arrays of canonical files, each with its own name
RulesyncFileArrays ==
    UNION {{[i \in 1..n |-> [kind |-> f[i].kind, name |-> ToString(i),
                             root |-> f[i].root, targets |-> f[i].targets,
                             body |-> BodyOf(ToString(i))]] :
                f \in [1..n -> RulesyncFileKinds]} : n \in 0..MaxRules}

\* the canonical rules that .rulesync/rules may hold
RulesyncRuleStores ==
    LET IsRulesyncRule(file) == file.kind = "RulesyncRule"
    IN {files \in RulesyncFileArrays : SelectSeq(files, IsRulesyncRule) = files}

\* the files a glob of loadToolFiles may find: each parses or does not
ToolFileLists(names) ==
    UNION {{[i \in 1..n |-> [name |-> names[i], valid |-> f[i]]] :
                f \in [1..n -> BOOLEAN]} : n \in 0..Len(names)}

\* what getSettablePaths may answer: an error, or which of root and nonRoot
\* the tool has in this mode
SettablePathsChoices ==
    {Throw("does not support global mode")}
        \cup {Ok(paths) : paths \in [root : BOOLEAN, nonRoot : BOOLEAN]}

\* what loadToolFiles may find on disk: at most one root file (its name is
\* fixed) and some non-root files
ToolDisks ==
    [settablePaths : SettablePathsChoices,
     rootFiles : ToolFileLists(<<"root">>),
     nonRootFiles : ToolFileLists([i \in 1..MaxFiles |-> ToString(i)])]

\* the keys toolRuleFactories may be built with: the shipped entries, or
\* those and the entry of one more tool
RuleRegistryKeys == {DOMAIN toolRuleFactories, DOMAIN toolRuleFactories \cup {"newtool"}}

-----------------------------------------------------------------------------
(* The rules actions *)

LoadRulesyncFiles ==
    /\ call = "idle"
    /\ \E rules \in RulesyncRuleStores :
          /\ arg' = rules
          /\ ret' = loadRulesyncFiles(rules, global)
          /\ log' = loadRulesyncFilesLog(rules, global)
    /\ call' = "loadRulesyncFiles"
    /\ UNCHANGED config

LoadToolFiles ==
    /\ call = "idle"
    /\ \E disk \in ToolDisks, forDeletion \in BOOLEAN :
          /\ arg' = [disk |-> disk, forDeletion |-> forDeletion]
          /\ ret' = loadToolFiles(disk, toolTarget, forDeletion)
          /\ log' = loadToolFilesLog(disk, toolTarget)
    /\ call' = "loadToolFiles"
    /\ UNCHANGED config

ConvertRulesyncFilesToToolFiles ==
    /\ call = "idle"
    /\ \E files \in RulesyncFileArrays :
          /\ arg' = files
          /\ ret' = convertRulesyncFilesToToolFiles(
                      files, toolTarget, global,
                      simulateCommands, simulateSubagents, simulateSkills)
    /\ call' = "convertRulesyncFilesToToolFiles"
    /\ log' = <<>>
    /\ UNCHANGED config

\* the static RulesProcessor.getToolTargets, in a build whose registry has
\* the keys registered; the lists it returns do not read the registry
GetRulesToolTargets ==
    /\ call = "idle"
    /\ \E registered \in RuleRegistryKeys, g \in {Absent, Some(FALSE), Some(TRUE)} :
          /\ arg' = [registered |-> registered, global |-> g]
          /\ ret' = Ok(rulesGetToolTargets(OrDefault(g, FALSE)))
    /\ call' = "rulesGetToolTargets"
    /\ log' = <<>>
    /\ UNCHANGED config

\* a RulesProcessor used to load: the simulate flags are not read
InitRulesLoad ==
    /\ toolTarget \in RulesProcessorToolTarget
    /\ global \in BOOLEAN
    /\ simulateCommands = FALSE
    /\ simulateSubagents = FALSE
    /\ simulateSkills = FALSE
    /\ call = "idle"
    /\ arg = <<>>
    /\ ret = Ok(<<>>)
    /\ log = <<>>

NextRulesLoad ==
    \/ Return
    \/ LoadRulesyncFiles
    \/ LoadToolFiles
    \/ GetRulesToolTargets

SpecRulesLoad == InitRulesLoad /\ [][NextRulesLoad]_vars

\* a RulesProcessor used to convert
InitRulesConvert ==
    /\ toolTarget \in RulesProcessorToolTarget
    /\ global \in BOOLEAN
    /\ simulateCommands \in BOOLEAN
    /\ simulateSubagents \in BOOLEAN
    /\ simulateSkills \in BOOLEAN
    /\ call = "idle"
    /\ arg = <<>>
    /\ ret = Ok(<<>>)
    /\ log = <<>>

NextRulesConvert ==
    \/ Return
    \/ ConvertRulesyncFilesToToolFiles

SpecRulesConvert == InitRulesConvert /\ [][NextRulesConvert]_vars

\* the arrays of canonical files whose names are in any order: the order of
\* the array is the order the files were loaded in, not that of their names
RulesyncFilesInLoadOrder ==
    LET Kinds == [kind : {"RulesyncRule"}, root : BOOLEAN,
                  targets : {Absent, Some({"claudecode", "copilot", "cursor"})}]
                    \cup [kind : {"Other"}, root : {FALSE}, targets : {Absent}]
    IN UNION {{[i \in 1..n |-> [kind |-> f[i].kind, name |-> ToString(p[i]),
                                root |-> f[i].root, targets |-> f[i].targets,
                                body |-> BodyOf(ToString(p[i]))]] :
                  f \in [1..n -> Kinds], p \in Permutations(1..n)} : n \in 0..MaxRules}

\* convertRulesyncFilesToToolFiles called with files in their load order
ConvertRulesyncFilesInLoadOrder ==
    /\ call = "idle"
    /\ \E files \in RulesyncFilesInLoadOrder :
          /\ arg' = files
          /\ ret' = convertRulesyncFilesToToolFiles(
                      files, toolTarget, global,
                      simulateCommands, simulateSubagents, simulateSkills)
    /\ call' = "convertRulesyncFilesToToolFiles"
    /\ log' = <<>>
    /\ UNCHANGED config

\* a RulesProcessor constructed with the simulate flags left out
InitRulesReferences ==
    /\ toolTarget \in RulesProcessorToolTarget
    /\ global \in BOOLEAN
    /\ simulateCommands = FALSE
    /\ simulateSubagents = FALSE
    /\ simulateSkills = FALSE
    /\ call = "idle"
    /\ arg = <<>>
    /\ ret = Ok(<<>>)
    /\ log = <<>>

NextRulesReferences ==
    \/ Return
    \/ ConvertRulesyncFilesInLoadOrder

SpecRulesReferences == InitRulesReferences /\ [][NextRulesReferences]_vars

-----------------------------------------------------------------------------
(* The loads, read by read *)

\* the outcome of a call that has not returned yet
Pending == [status |-> "pending", value |-> <<>>, error |-> ""]

\* a Promise.all that gives the values of the reads that succeeded
PromiseAll_fulfilledOnly(outcomes, order) ==
    LET Fulfilled(outcome) == outcome.status = "ok"
        fulfilled == SelectSeq(outcomes, Fulfilled)
    IN Ok([i \in 1..Len(fulfilled) |-> fulfilled[i].value])

\* a Promise.all that collects the values as the reads complete
PromiseAll_completionOrder(outcomes, order) ==
    IF \E k \in 1..Len(order) : outcomes[order[k]].status = "throw"
    THEN outcomes[order[FindIndex(order, LAMBDA i : outcomes[i].status = "throw")]]
    ELSE Ok([k \in 1..Len(order) |-> outcomes[order[k]].value])

\* what an awaited Promise.all gives once it settles, order being the reads
\* completed so far in the order they completed: the rejection of the first
\* read that failed, else the values in the order of the promises
PromiseAll(outcomes, order) ==
    IF \E k \in 1..Len(order) : outcomes[order[k]].status = "throw"
    THEN outcomes[order[FindIndex(order, LAMBDA i : outcomes[i].status = "throw")]]
    ELSE Ok([i \in 1..Len(outcomes) |-> outcomes[i].value])

\* a Promise.all settles when a read has failed or every read has completed
PromiseAllSettled(outcomes, order) ==
    \/ \E k \in 1..Len(order) : outcomes[order[k]].status = "throw"
    \/ Len(order) = Len(outcomes)

\* the outcome each read of a load's current Promise.all will have
ReadOutcomes(load) ==
    LET paths == load.groups[load.phase]
    IN [i \in 1..Len(paths) |->
          CASE load.op = "loadRulesyncDirs" -> fromDir("RulesyncSkill", paths[i], global)
            [] load.op = "loadToolDirs" -> fromDir(load.class, paths[i], global)
            [] load.op = "loadToolFiles" -> fromFile(load.class, paths[i], load.phase = 1)]

\* a load up to its first Promise.all: the paths it will read, group by
\* group, and the reads of the first group started
StartedLoad(op, class, groups, forDeletion) ==
    [op |-> op, class |-> class, groups |-> groups, forDeletion |-> forDeletion,
     phase |-> 1, order |-> <<>>, values |-> <<>>, inFlight |-> 1..Len(groups[1])]

\* a load that threw before it started any read
FailedLoad(op, forDeletion) ==
    [op |-> op, class |-> "", groups |-> <<<<>>>>, forDeletion |-> forDeletion,
     phase |-> 1, order |-> <<>>, values |-> <<>>, inFlight |-> {}]

\* SkillsProcessor.loadRulesyncDirs() up to its Promise.all
BeginLoadRulesyncDirs ==
    /\ call = "idle"
    /\ \E dirs \in SkillDirLists :
          arg' = StartedLoad("loadRulesyncDirs", "RulesyncSkill", <<dirs>>, FALSE)
    /\ ret' = Pending
    /\ call' = "loadRulesyncDirs"
    /\ log' = <<>>
    /\ UNCHANGED config

\* SkillsProcessor.loadToolDirs() up to its Promise.all
BeginLoadToolDirs ==
    /\ call = "idle"
    /\ \E disk \in SkillDisks :
          LET factory == defaultGetFactory(toolTarget, global)
              paths == SkillSettablePaths(factory.value.class, global, disk)
          IN  IF factory.status = "throw" \/ paths.status = "throw"
              THEN /\ arg' = FailedLoad("loadToolDirs", FALSE)
                   /\ ret' = IF factory.status = "throw" THEN factory ELSE paths
              ELSE /\ arg' = StartedLoad("loadToolDirs", factory.value.class,
                                         <<disk.dirs>>, FALSE)
                   /\ ret' = Pending
    /\ call' = "loadToolDirs"
    /\ log' = <<>>
    /\ UNCHANGED config

\* RulesProcessor.loadToolFiles() up to its first Promise.all; an error
\* before it is caught like any other
BeginLoadToolFiles ==
    /\ call = "idle"
    /\ \E disk \in ToolDisks, forDeletion \in BOOLEAN :
          LET factory == rulesGetFactory(toolTarget)
          IN  IF factory.status = "throw" \/ disk.settablePaths.status = "throw"
              THEN /\ arg' = FailedLoad("loadToolFiles", forDeletion)
                   /\ ret' = Ok(<<>>)
                   /\ log' = <<[level |-> "error", what |-> "Failed to load tool files",
                                n |-> 0]>>
              ELSE /\ arg' = StartedLoad(
                              "loadToolFiles", factory.value.class,
                              <<IF disk.settablePaths.value.root
                                THEN disk.rootFiles ELSE <<>>,
                                IF disk.settablePaths.value.nonRoot
                                THEN disk.nonRootFiles ELSE <<>>>>,
                              forDeletion)
                   /\ ret' = Pending
                   /\ log' = <<>>
    /\ call' = "loadToolFiles"
    /\ UNCHANGED config

\* one of the reads in flight completes; the call may have returned already
SettleRead ==
    /\ call \in {"loadRulesyncDirs", "loadToolDirs", "loadToolFiles"}
    /\ \E i \in arg.inFlight :
          arg' = [arg EXCEPT !.inFlight = @ \ {i}, !.order = Append(@, i)]
    /\ UNCHANGED <<config, call, ret, log>>

\* the skills loads after their await: the rejection is thrown, or the
\* skills are returned
ResumeLoadDirs ==
    /\ call \in {"loadRulesyncDirs", "loadToolDirs"}
    /\ ret = Pending
    /\ PromiseAllSettled(ReadOutcomes(arg), arg.order)
    /\ ret' = PromiseAll(ReadOutcomes(arg), arg.order)
    /\ log' = loadDirsLog(PromiseAll(ReadOutcomes(arg), arg.order))
    /\ UNCHANGED <<config, call, arg>>

\* loadToolFiles after an await: the rejection is caught, logged and []
\* returned; else the non-root reads are started after the root ones, and
\* the rules returned after the non-root ones
ResumeLoadToolFiles ==
    /\ call = "loadToolFiles"
    /\ ret = Pending
    /\ PromiseAllSettled(ReadOutcomes(arg), arg.order)
    /\ LET settled == PromiseAll(ReadOutcomes(arg), arg.order)
       IN  IF settled.status = "throw"
           THEN /\ ret' = Ok(<<>>)
                /\ log' = Append(log, [level |-> "error",
                                       what |-> "Failed to load tool files", n |-> 0])
                /\ arg' = arg
           ELSE IF arg.phase = 1
           THEN /\ ret' = Pending
                /\ log' = Append(log, [level |-> "debug",
                                       what |-> "Found root tool rule files",
                                       n |-> Len(settled.value)])
                /\ arg' = [arg EXCEPT !.phase = 2, !.order = <<>>,
                                      !.values = settled.value,
                                      !.inFlight = 1..Len(arg.groups[2])]
           ELSE /\ ret' = Ok(arg.values \o settled.value)
                /\ log' = Append(log, [level |-> "debug",
                                       what |-> "Found non-root tool rule files",
                                       n |-> Len(settled.value)])
                /\ arg' = arg
    /\ UNCHANGED <<config, call>>

NextLoads ==
    \/ Return
    \/ BeginLoadRulesyncDirs
    \/ BeginLoadToolDirs
    \/ BeginLoadToolFiles
    \/ SettleRead
    \/ ResumeLoadDirs
    \/ ResumeLoadToolFiles

SpecLoads == InitSkills /\ [][NextLoads]_vars

-----------------------------------------------------------------------------
(* ConfigResolver.resolve and Config *)

\* a ?? b on optional values
Coalesce(a, b) == IF a # Absent THEN a ELSE b

\* the options of ConfigParams that are modelled; the other parameters
\* (targets, features, verbose, delete, modularMcp) are each resolved on
\* their own and read by nothing below
ConfigBooleanOptions ==
    {"global", "simulateCommands", "simulateSubagents", "simulateSkills",
     "experimentalGlobal", "experimentalSimulateCommands", "experimentalSimulateSubagents"}

ConfigOptions == ConfigBooleanOptions \cup {"baseDirs"}

\* a path: absolute or relative, its segments, and whether validateBaseDir
\* accepts the directory it names
Path(absolute, segments, allowed) ==
    [absolute |-> absolute, segments |-> segments, allowed |-> allowed]

\* process.cwd()
Cwd == Path(TRUE, <<"cwd">>, TRUE)

\* getHomeDirectory()
getHomeDirectory == Path(TRUE, <<"home">>, TRUE)

\* the segments of a path with each ".." and the segment before it removed
RECURSIVE Normalized(_)
Normalized(segments) ==
    IF segments = <<>> THEN <<>>
    ELSE LET before == Normalized(SubSeq(segments, 1, Len(segments) - 1))
             last == segments[Len(segments)]
         IN IF last # ".." THEN Append(before, last)
            ELSE IF before = <<>> THEN <<>>
            ELSE SubSeq(before, 1, Len(before) - 1)

\* path.resolve(baseDir): an absolute path stays, a relative one is taken
\* from the working directory
pathResolve(baseDir) ==
    Path(TRUE,
         Normalized(IF baseDir.absolute THEN baseDir.segments
                    ELSE Cwd.segments \o baseDir.segments),
         baseDir.allowed)

\* getDefaults()
getDefaults ==
    [o \in ConfigOptions |-> IF o = "baseDirs" THEN <<Cwd>> ELSE FALSE]

\* validateBaseDir(baseDir): throws for a directory it does not accept
validateBaseDir(baseDir) ==
    IF baseDir.allowed THEN Ok(baseDir) ELSE Throw("Invalid baseDir")

\* base directories that keep the supplied ones after the home directory
getBaseDirsInLightOfGlobal_homeFirst(baseDirs, isGlobal) ==
    LET resolvedBaseDirs == MapSeq(baseDirs, pathResolve)
    IN  IF \E i \in 1..Len(resolvedBaseDirs) :
               validateBaseDir(resolvedBaseDirs[i]).status = "throw"
        THEN Throw("Invalid baseDir")
        ELSE IF isGlobal THEN Ok(<<getHomeDirectory>> \o resolvedBaseDirs)
        ELSE Ok(resolvedBaseDirs)

\* getBaseDirsInLightOfGlobal({baseDirs, global})
getBaseDirsInLightOfGlobal(baseDirs, isGlobal) ==
    IF isGlobal THEN Ok(<<getHomeDirectory>>)
    ELSE LET resolvedBaseDirs == MapSeq(baseDirs, pathResolve)
         IN  IF \E i \in 1..Len(resolvedBaseDirs) :
                    validateBaseDir(resolvedBaseDirs[i]).status = "throw"
             THEN Throw("Invalid baseDir")
             ELSE Ok(resolvedBaseDirs)

\* new Config(params): the new option, else the deprecated one, else false
Config(params) ==
    [baseDirs |-> params.baseDirs[1],
     global |-> OrDefault(Coalesce(params.global, params.experimentalGlobal), FALSE),
     simulateCommands |->
        OrDefault(Coalesce(params.simulateCommands, params.experimentalSimulateCommands),
                  FALSE),
     simulateSubagents |->
        OrDefault(Coalesce(params.simulateSubagents, params.experimentalSimulateSubagents),
                  FALSE),
     simulateSkills |-> OrDefault(params.simulateSkills, FALSE)]

\* the deprecated synonym of each option that has one
DeprecatedOf(option) ==
    CASE option = "global" -> "experimentalGlobal"
      [] option = "simulateCommands" -> "experimentalSimulateCommands"
      [] option = "simulateSubagents" -> "experimentalSimulateSubagents"

\* a resolution that prefers the deprecated options
ResolvedOption_deprecatedFirst(option, caller, configByFile) ==
    OrDefault(Coalesce(caller[DeprecatedOf(option)],
              Coalesce(configByFile[DeprecatedOf(option)],
              Coalesce(caller[option], configByFile[option]))),
              getDefaults[option])

\* resolvedGlobal, resolvedSimulateCommands, resolvedSimulateSubagents
ResolvedOption(option, caller, configByFile) ==
    OrDefault(Coalesce(caller[option],
              Coalesce(configByFile[option],
              Coalesce(caller[DeprecatedOf(option)], configByFile[DeprecatedOf(option)]))),
              getDefaults[option])

\* the warning warnDeprecatedOptions logs for a deprecated option
DeprecationWarning(deprecated) ==
    [level |-> "warn", what |-> deprecated, n |-> 0]

\* warnings only for the deprecated options that are used
DeprecationWarnings_whenUsed(caller, configByFile) ==
    LET Warned(option) ==
            IF /\ Coalesce(caller[DeprecatedOf(option)],
                           configByFile[DeprecatedOf(option)]) # Absent
               /\ Coalesce(caller[option], configByFile[option]) = Absent
            THEN <<DeprecationWarning(DeprecatedOf(option))>> ELSE <<>>
    IN Warned("global") \o Warned("simulateCommands") \o Warned("simulateSubagents")

\* the three tests of the deprecated options and the warnings they log
DeprecationWarnings(caller, configByFile) ==
    LET Warned(option) ==
            IF Coalesce(caller[DeprecatedOf(option)],
                        configByFile[DeprecatedOf(option)]) # Absent
            THEN <<DeprecationWarning(DeprecatedOf(option))>> ELSE <<>>
    IN Warned("global") \o Warned("simulateCommands") \o Warned("simulateSubagents")

\* configByFile: {} when there is no config file
ConfigByFile(file) ==
    IF file.status = "valid" THEN file.params ELSE [o \in ConfigOptions |-> Absent]

\* ConfigResolver.resolve(params), given the config file
resolve(caller, file) ==
    IF file.status = "invalid" THEN Throw("Failed to load config file")
    ELSE LET configByFile == ConfigByFile(file)
             resolvedGlobal == ResolvedOption("global", caller, configByFile)
             baseDirs == getBaseDirsInLightOfGlobal(
                            OrDefault(Coalesce(caller.baseDirs, configByFile.baseDirs),
                                      getDefaults.baseDirs),
                            resolvedGlobal)
         IN IF baseDirs.status = "throw" THEN baseDirs
            ELSE Ok(Config(
                    [baseDirs |-> Some(baseDirs.value),
                     global |-> Some(resolvedGlobal),
                     simulateCommands |->
                        Some(ResolvedOption("simulateCommands", caller, configByFile)),
                     simulateSubagents |->
                        Some(ResolvedOption("simulateSubagents", caller, configByFile)),
                     simulateSkills |->
                        Some(OrDefault(Coalesce(caller.simulateSkills,
                                                configByFile.simulateSkills),
                                       getDefaults.simulateSkills)),
                     experimentalGlobal |-> Absent,
                     experimentalSimulateCommands |-> Absent,
                     experimentalSimulateSubagents |-> Absent]))

\* what resolve logs: the error of a config file that does not load, or the
\* deprecation warnings
resolveLog(caller, file) ==
    IF file.status = "invalid"
    THEN <<[level |-> "error", what |-> "Failed to load config file", n |-> 0]>>
    ELSE DeprecationWarnings(caller, ConfigByFile(file))

\* where an option may be defined: by the caller or in the config file
ConfigSources == {"caller", "file"} \X ConfigOptions

\* the value an option is given: one of two per option; the base directories
\* are a relative and an absolute directory, or a directory and one that
\* validateBaseDir does not accept
OptionValue(option, bit) ==
    IF option = "baseDirs"
    THEN (IF bit
          THEN <<Path(FALSE, <<"packages", "web">>, TRUE), Path(TRUE, <<"srv", "api">>, TRUE)>>
          ELSE <<Path(FALSE, <<"project">>, TRUE),
                 Path(FALSE, <<"..", "outside">>, FALSE)>>)
    ELSE bit

\* the parameters of a source, given the sources that define an option and
\* the values they give
ParamsOf(source, defined, bits) ==
    [o \in ConfigOptions |->
        IF <<source, o>> \in defined THEN Some(OptionValue(o, bits[<<source, o>>]))
        ELSE Absent]

\* the sets of at most MaxDefined option definitions
DefinedSets == {S \in SUBSET ConfigSources : Cardinality(S) <= MaxDefined}

\* ConfigResolver.resolve called with some parameters, the config file being
\* missing, invalid, or valid with some parameters
Resolve ==
    /\ call = "idle"
    /\ \E defined \in DefinedSets, status \in {"missing", "invalid", "valid"} :
          /\ status # "valid" => \A d \in defined : d[1] = "caller"
          /\ \E bits \in [defined -> BOOLEAN] :
                LET caller == ParamsOf("caller", defined, bits)
                    file == [status |-> status, params |-> ParamsOf("file", defined, bits)]
                IN  /\ arg' = [caller |-> caller, file |-> file]
                    /\ ret' = resolve(caller, file)
                    /\ log' = resolveLog(caller, file)
    /\ call' = "resolve"
    /\ UNCHANGED config

\* no processor is constructed while the configuration is resolved
InitConfig ==
    /\ toolTarget = "agentsmd"
    /\ global = FALSE
    /\ simulateCommands = FALSE
    /\ simulateSubagents = FALSE
    /\ simulateSkills = FALSE
    /\ call = "idle"
    /\ arg = <<>>
    /\ ret = Ok(<<>>)
    /\ log = <<>>

NextConfig ==
    \/ Return
    \/ Resolve

SpecConfig == InitConfig /\ [][NextConfig]_vars

-----------------------------------------------------------------------------
(* Construction of the two processors *)

\* the identifiers a caller may pass as toolTarget: the tools of either
\* processor, and two that neither supports
ToolTargets == RulesProcessorToolTarget \cup SkillsProcessorToolTarget \cup {"invalid", "zed"}

\* the value of a field of an object that was not constructed
Undefined == "undefined"

\* a SkillsProcessor that takes any toolTarget
SkillsProcessor_unvalidated(params) ==
    Ok([toolTarget |-> params.toolTarget, global |-> OrDefault(params.global, FALSE)])

\* new SkillsProcessor({toolTarget, global}): the fields of the new object,
\* or the error thrown before any field is assigned (its message goes on with
\* the schema's own text, which is left out)
SkillsProcessor(params) ==
    IF params.toolTarget \notin SkillsProcessorToolTarget
    THEN Throw("Invalid tool target for SkillsProcessor: " \o params.toolTarget)
    ELSE Ok([toolTarget |-> params.toolTarget, global |-> OrDefault(params.global, FALSE)])

\* new RulesProcessor({toolTarget, global, simulateCommands, simulateSubagents,
\* simulateSkills})
RulesProcessor(params) ==
    IF params.toolTarget \notin RulesProcessorToolTarget
    THEN Throw("Invalid tool target for RulesProcessor: " \o params.toolTarget)
    ELSE Ok([toolTarget |-> params.toolTarget,
             global |-> OrDefault(params.global, FALSE),
             simulateCommands |-> OrDefault(params.simulateCommands, FALSE),
             simulateSubagents |-> OrDefault(params.simulateSubagents, FALSE),
             simulateSkills |-> OrDefault(params.simulateSkills, FALSE)])

\* an optional boolean parameter: left out, or given
OptionalBoolean == {Absent, Some(FALSE), Some(TRUE)}

\* new SkillsProcessor(params) evaluated: the object it made becomes the
\* processor, and when it throws there is no object
NewSkillsProcessor ==
    /\ call = "idle"
    /\ \E t \in ToolTargets, g \in OptionalBoolean :
          LET params == [toolTarget |-> t, global |-> g]
              made == SkillsProcessor(params)
          IN  /\ arg' = params
              /\ ret' = made
              /\ IF made.status = "ok"
                 THEN /\ toolTarget' = made.value.toolTarget
                      /\ global' = made.value.global
                 ELSE /\ toolTarget' = Undefined
                      /\ global' = Undefined
    /\ simulateCommands' = Undefined
    /\ simulateSubagents' = Undefined
    /\ simulateSkills' = Undefined
    /\ call' = "new SkillsProcessor"
    /\ log' = <<>>

\* new RulesProcessor(params) evaluated
NewRulesProcessor ==
    /\ call = "idle"
    /\ \E t \in ToolTargets, g \in OptionalBoolean, c \in OptionalBoolean,
          a \in OptionalBoolean, s \in OptionalBoolean :
          LET params == [toolTarget |-> t, global |-> g, simulateCommands |-> c,
                         simulateSubagents |-> a, simulateSkills |-> s]
              made == RulesProcessor(params)
          IN  /\ arg' = params
              /\ ret' = made
              /\ IF made.status = "ok"
                 THEN /\ toolTarget' = made.value.toolTarget
                      /\ global' = made.value.global
                      /\ simulateCommands' = made.value.simulateCommands
                      /\ simulateSubagents' = made.value.simulateSubagents
                      /\ simulateSkills' = made.value.simulateSkills
                 ELSE /\ toolTarget' = Undefined
                      /\ global' = Undefined
                      /\ simulateCommands' = Undefined
                      /\ simulateSubagents' = Undefined
                      /\ simulateSkills' = Undefined
    /\ call' = "new RulesProcessor"
    /\ log' = <<>>

\* no processor has been constructed yet
InitConstruct ==
    /\ toolTarget = Undefined
    /\ global = Undefined
    /\ simulateCommands = Undefined
    /\ simulateSubagents = Undefined
    /\ simulateSkills = Undefined
    /\ call = "idle"
    /\ arg = <<>>
    /\ ret = Ok(<<>>)
    /\ log = <<>>

NextConstruct ==
    \/ Return
    \/ NewSkillsProcessor
    \/ NewRulesProcessor

SpecConstruct == InitConstruct /\ [][NextConstruct]_vars

-----------------------------------------------------------------------------
(* The canonical documents across conversions *)

\* canonical rules left as they would be if the root tool rule were the
\* canonical root rule itself, its body being the file content set on it
RulesyncFilesAfterConvert_aliased(rulesyncFiles, converted) ==
    IF converted.status = "throw" \/ FindIndex(converted.value, isRoot) = 0
    THEN rulesyncFiles
    ELSE LET rootRule == converted.value[FindIndex(converted.value, isRoot)]
         IN [i \in 1..Len(rulesyncFiles) |->
                IF rulesyncFiles[i].name = rootRule.name
                THEN [rulesyncFiles[i] EXCEPT !.body = rootRule.content]
                ELSE rulesyncFiles[i]]

\* the canonical rules after convertRulesyncFilesToToolFiles returned
\* converted: filter and map make new arrays, fromRulesyncRule makes a new
\* tool rule of each canonical rule, and push and setFileContent are called
\* on those, so nothing is written to rulesyncFiles or to a rule in it
RulesyncFilesAfterConvert(rulesyncFiles, converted) == rulesyncFiles

\* the canonical skills after convertRulesyncDirsToToolDirs returned
\* converted: it only filters and maps
RulesyncDirsAfterConvert(rulesyncDirs, converted) == rulesyncDirs

\* the documents handed to a conversion as they were, as they are now, and
\* the outcome of each conversion of them so far
Conversions(before, now, outcomes) ==
    [before |-> before, now |-> now, outcomes |-> outcomes]

\* a RulesProcessor converts the canonical rules it was handed
ConvertRulesyncFilesOnce ==
    /\ call = "idle"
    /\ \E rulesyncFiles \in RulesyncRuleStores :
          LET converted == convertRulesyncFilesToToolFiles(
                              rulesyncFiles, toolTarget, global,
                              simulateCommands, simulateSubagents, simulateSkills)
          IN  /\ arg' = Conversions(rulesyncFiles,
                                    RulesyncFilesAfterConvert(rulesyncFiles, converted),
                                    <<converted>>)
              /\ ret' = converted
    /\ call' = "convertRulesyncFilesToToolFiles"
    /\ log' = <<>>
    /\ UNCHANGED config

\* it converts the same canonical rules once more
ConvertRulesyncFilesAgain ==
    /\ call = "convertRulesyncFilesToToolFiles"
    /\ Len(arg.outcomes) = 1
    /\ LET converted == convertRulesyncFilesToToolFiles(
                           arg.now, toolTarget, global,
                           simulateCommands, simulateSubagents, simulateSkills)
       IN  /\ arg' = Conversions(arg.before,
                                 RulesyncFilesAfterConvert(arg.now, converted),
                                 Append(arg.outcomes, converted))
           /\ ret' = converted
    /\ log' = <<>>
    /\ UNCHANGED <<config, call>>

\* a SkillsProcessor for the same tool and mode converts the canonical
\* skills it was handed; there is none for a tool it does not support
ConvertRulesyncDirsOnce ==
    /\ call = "idle"
    /\ toolTarget \in SkillsProcessorToolTarget
    /\ \E rulesyncDirs \in RulesyncDirArrays :
          LET converted == convertRulesyncDirsToToolDirs(rulesyncDirs, toolTarget, global)
          IN  /\ arg' = Conversions(rulesyncDirs,
                                    RulesyncDirsAfterConvert(rulesyncDirs, converted),
                                    <<converted>>)
              /\ ret' = converted
    /\ call' = "convertRulesyncDirsToToolDirs"
    /\ log' = <<>>
    /\ UNCHANGED config

\* it converts the same canonical skills once more
ConvertRulesyncDirsAgain ==
    /\ call = "convertRulesyncDirsToToolDirs"
    /\ Len(arg.outcomes) = 1
    /\ LET converted == convertRulesyncDirsToToolDirs(arg.now, toolTarget, global)
       IN  /\ arg' = Conversions(arg.before,
                                 RulesyncDirsAfterConvert(arg.now, converted),
                                 Append(arg.outcomes, converted))
           /\ ret' = converted
    /\ log' = <<>>
    /\ UNCHANGED <<config, call>>

NextConvertTwice ==
    \/ Return
    \/ ConvertRulesyncFilesOnce
    \/ ConvertRulesyncFilesAgain
    \/ ConvertRulesyncDirsOnce
    \/ ConvertRulesyncDirsAgain

SpecConvertTwice == InitRulesConvert /\ [][NextConvertTwice]_vars

-----------------------------------------------------------------------------
(* The two processors of codexcli *)

\* a SkillsProcessor and a RulesProcessor constructed for codexcli with the
\* same mode, as a run constructs them, with the default registry
InitCodexCli ==
    /\ toolTarget = "codexcli"
    /\ global \in BOOLEAN
    /\ simulateCommands \in BOOLEAN
    /\ simulateSubagents \in BOOLEAN
    /\ simulateSkills \in BOOLEAN
    /\ call = "idle"
    /\ arg = <<>>
    /\ ret = Ok(<<>>)
    /\ log = <<>>

NextCodexCli ==
    \/ Return
    \/ LoadToolDirs
    \/ LoadToolDirsToDelete
    \/ ConvertRulesyncDirsToToolDirs
    \/ ConvertRulesyncFilesToToolFiles

SpecCodexCli == InitCodexCli /\ [][NextCodexCli]_vars

-----------------------------------------------------------------------------
(* Claims about the skills registry and the SkillsProcessor *)

\* C1: defaultGetFactory(target, global) returns, for codexcli (the one tool
\* registered with a distinct projectClass), the project class
\* CodexCliSimulatedSkill when global is false and the default class
\* CodexCliSkill when global is true; for every other tool it returns the
\* entry's class whatever global is; the metadata returned is the entry's.
C1_ModeBasedClassSelection ==
    call = "defaultGetFactory" =>
        LET entry == toolSkillFactories[arg.target]
        IN  /\ ret.status = "ok"
            /\ ret.value.meta = entry.meta
            /\ (entry.projectClass # Absent) <=> (arg.target = "codexcli")
            /\ arg.target = "codexcli" =>
                  /\ entry.projectClass[1] # entry.class
                  /\ ret.value.class =
                        IF arg.global THEN "CodexCliSkill" ELSE "CodexCliSimulatedSkill"
            /\ arg.target # "codexcli" => ret.value.class = entry.class

\* the project-mode lookup of codexcli has returned the simulated class
C1_Witness ==
    /\ call = "defaultGetFactory"
    /\ arg.target = "codexcli"
    /\ ~arg.global
    /\ ret.value.class = "CodexCliSimulatedSkill"

\* the canonical skills of an array that a processor of tool t must convert
TargetedRulesyncSkills(dirs, t) ==
    LET Wanted(d) ==
            /\ d.kind = "RulesyncSkill"
            /\ (d.targets = Absent \/ d.targets[1] \cap {"*", t} # {})
    IN SelectSeq(dirs, Wanted)

\* C2: convertRulesyncDirsToToolDirs never throws and returns one tool skill
\* for each input RulesyncSkill whose targets are absent or contain "*" or the
\* processor's tool, in input order, and nothing for any other input.
C2_ConvertsExactlyTheTargeted ==
    call = "convertRulesyncDirsToToolDirs" =>
        LET wanted == TargetedRulesyncSkills(arg, toolTarget)
        IN  /\ ret.status = "ok"
            /\ Len(ret.value) = Len(wanted)
            /\ \A i \in 1..Len(wanted) :
                  /\ ret.value[i].dirName = wanted[i].dirName
                  /\ ret.value[i].kind \in ToolSkillClasses
            /\ arg = <<>> => ret.value = <<>>

\* an array of three directories of which one was converted and two dropped,
\* one of the dropped being a RulesyncSkill for another tool
C2_Witness ==
    /\ call = "convertRulesyncDirsToToolDirs"
    /\ Len(arg) = 3
    /\ ret.status = "ok"
    /\ Len(ret.value) = 1
    /\ \E i \in 1..3 : arg[i].kind = "RulesyncSkill" /\ arg[i].targets = Some({"claudecode"})
    /\ \E i \in 1..3 : arg[i].kind = "Other"
    /\ toolTarget = "codexcli"

\* the Native tool skills of an array
NativeToolSkills(dirs) ==
    LET Native(d) == d.kind \in {"ClaudecodeSkill", "CodexCliSkill"}
    IN SelectSeq(dirs, Native)

\* C3: convertToolDirsToRulesyncDirs never throws (in particular not the
\* simulated-conversion error) and returns one canonical skill for each
\* Native tool skill of the input, in input order, skipping Simulated tool
\* skills and inputs that are no ToolSkill.
C3_ReverseConvertsExactlyTheNative ==
    call = "convertToolDirsToRulesyncDirs" =>
        LET native == NativeToolSkills(arg)
        IN  /\ ret.status = "ok"
            /\ ret.error # "Not implemented because it is a SIMULATED skill."
            /\ Len(ret.value) = Len(native)
            /\ \A i \in 1..Len(native) :
                  /\ ret.value[i].kind = "RulesyncSkill"
                  /\ ret.value[i].dirName = native[i].dirName

\* a Simulated, a Native and a non-ToolSkill input in one array, the Simulated
\* one first, of which only the Native one was converted
C3_Witness ==
    /\ call = "convertToolDirsToRulesyncDirs"
    /\ Len(arg) = 3
    /\ arg[1].kind = "CodexCliSimulatedSkill"
    /\ arg[2].kind = "ClaudecodeSkill"
    /\ arg[3].kind = "Other"
    /\ ret.status = "ok"
    /\ Len(ret.value) = 1
    /\ ret.value[1].dirName = 2

\* C4: toRulesyncSkill on a CodexCliSimulatedSkill, whatever the skill, throws
\* "Not implemented because it is a SIMULATED skill." and returns nothing.
C4_SimulatedReverseConversionThrows ==
    (call = "toRulesyncSkill" /\ arg.kind = "CodexCliSimulatedSkill") =>
        /\ ret.status = "throw"
        /\ ret.error = "Not implemented because it is a SIMULATED skill."
        /\ ret.value = <<>>

\* toRulesyncSkill was called on a CodexCliSimulatedSkill and threw
C4_Witness ==
    /\ call = "toRulesyncSkill"
    /\ arg.kind = "CodexCliSimulatedSkill"
    /\ arg.dirName = 2
    /\ ret.status = "throw"

-----------------------------------------------------------------------------
(* Claims about the RulesProcessor *)

\* the root rules of an array of rules
RootRulesOf(rules) ==
    LET IsRootRule(rule) == rule.root
    IN SelectSeq(rules, IsRootRule)

\* C5: loadRulesyncFiles throws "Multiple root rulesync rules found" whenever
\* two or more of the canonical rules are root, in project mode and in global
\* mode; with exactly one root rule it succeeds and returns that rule, as the
\* only root rule of the result.
C5_RootUniqueness ==
    call = "loadRulesyncFiles" =>
        /\ Len(RootRulesOf(arg)) >= 2 =>
              /\ ret.status = "throw"
              /\ ret.error = "Multiple root rulesync rules found"
        /\ Len(RootRulesOf(arg)) = 1 =>
              /\ ret.status = "ok"
              /\ RootRulesOf(ret.value) = RootRulesOf(arg)

\* a global-mode load of two root rules and a non-root rule has thrown
C5_Witness ==
    /\ call = "loadRulesyncFiles"
    /\ global
    /\ Len(arg) = 3
    /\ Len(RootRulesOf(arg)) = 2
    /\ ret.status = "throw"

\* the tools whose case of the switch rewrites the root rule
InjectingTools ==
    {"agentsmd", "augmentcode-legacy", "claudecode", "codexcli", "copilot",
     "geminicli", "kiro", "opencode", "qwencode", "warp"}

\* the tools whose root rule gets the additional-conventions block
ConventionsTools == {"agentsmd", "codexcli", "copilot", "geminicli"}

\* the names of the parts of a content, in order
PartsOf(content) == [i \in 1..Len(content) |-> content[i].part]

\* the first root rule of a conversion's output
FirstRootOf(toolRules) == RootRulesOf(toolRules)[1]

\* the part a references block is for this tool
ReferencesPart == IF toolTarget = "claudecode" THEN "references" ELSE "toonReferences"

\* a conversion for an injecting tool has returned a root rule
InjectionHappened ==
    /\ call = "convertRulesyncFilesToToolFiles"
    /\ ret.status = "ok"
    /\ toolTarget \in InjectingTools
    /\ RootRulesOf(ret.value) # <<>>

\* the output of the conversion has a non-root rule to reference
HasNonRoot == \E i \in 1..Len(ret.value) : ~ret.value[i].root

\* C6 as stated: for every injecting tool the rewritten root content is the
\* references block, then the additional-conventions block (for the tools
\* that get one), then the original content, and nothing else.
C6_AsStated ==
    InjectionHappened =>
        PartsOf(FirstRootOf(ret.value).content) =
            (IF HasNonRoot THEN <<ReferencesPart>> ELSE <<>>)
            \o (IF toolTarget \in ConventionsTools
                THEN <<"additionalConventions">> ELSE <<>>)
            \o <<"body">>

\* C6, amended: the rewritten root content is the references block (for
\* every injecting tool but copilot, which gets none), then the
\* additional-conventions block (for the tools that get one), then the root
\* rule's original content as the unchanged suffix, and nothing else.
C6_InjectionOrder ==
    InjectionHappened =>
        LET content == FirstRootOf(ret.value).content
        IN  /\ PartsOf(content) =
                  (IF HasNonRoot /\ toolTarget # "copilot"
                   THEN <<ReferencesPart>> ELSE <<>>)
                  \o (IF toolTarget \in ConventionsTools
                      THEN <<"additionalConventions">> ELSE <<>>)
                  \o <<"body">>
            /\ content[Len(content)].items = <<FirstRootOf(ret.value).name>>

\* a root rule rewritten with all three parts
C6_Witness ==
    /\ InjectionHappened
    /\ toolTarget = "geminicli"
    /\ Len(ret.value) = 3
    /\ PartsOf(FirstRootOf(ret.value).content) =
          <<"toonReferences", "additionalConventions", "body">>

\* the simulate flag of a feature
SimulateFlag(feature) ==
    CASE feature = "commands" -> simulateCommands
      [] feature = "subagents" -> simulateSubagents
      [] feature = "skills" -> simulateSkills

\* the simulated-capable tools of a feature
SimulatedTargets(feature) ==
    CASE feature = "commands" -> commandsProcessorToolTargetsSimulated
      [] feature = "subagents" -> subagentsProcessorToolTargetsSimulated
      [] feature = "skills" ->
            {t \in SkillsProcessorToolTarget : Includes(skillsProcessorToolTargetsSimulated, t)}

\* whether an additional-conventions block holds a feature's instructions
HasInstructions(block, feature) ==
    \E k \in 1..Len(block.items) : block.items[k] = feature

\* C7: in every additional-conventions block that a conversion generates, the
\* instructions of a feature are present if and only if the feature's
\* simulate flag is set and the tool is simulated-capable for the feature.
C7_InstructionsIffFlagAndCapable ==
    (call = "convertRulesyncFilesToToolFiles" /\ ret.status = "ok") =>
        \A i \in 1..Len(ret.value) :
            \A j \in 1..Len(ret.value[i].content) :
                ret.value[i].content[j].part = "additionalConventions" =>
                    \A feature \in {"commands", "subagents", "skills"} :
                        HasInstructions(ret.value[i].content[j], feature)
                            <=> (SimulateFlag(feature)
                                 /\ toolTarget \in SimulatedTargets(feature))

\* the canonical rules of an array that a processor of tool t must convert
TargetedRulesyncRules(files, t) ==
    LET Wanted(f) ==
            /\ f.kind = "RulesyncRule"
            /\ (f.targets = Absent \/ f.targets[1] \cap {"*", t} # {})
    IN SelectSeq(files, Wanted)

\* the names of the rules of an array, in order
NamesOf(rules) == [i \in 1..Len(rules) |-> rules[i].name]

\* C8: the output of convertRulesyncFilesToToolFiles is one rule per targeted
\* input rule, in input order, followed by exactly one non-root
\* "additional-conventions" rule if and only if the tool is cursor or roo and
\* at least one simulate flag is set.
C8_SyntheticConventionsRule ==
    (call = "convertRulesyncFilesToToolFiles" /\ ret.status = "ok") =>
        LET wanted == NamesOf(TargetedRulesyncRules(arg, toolTarget))
            extra == /\ toolTarget \in {"cursor", "roo"}
                     /\ (simulateCommands \/ simulateSubagents \/ simulateSkills)
        IN  /\ extra =>
                  /\ NamesOf(ret.value) = Append(wanted, "additional-conventions")
                  /\ ~ret.value[Len(ret.value)].root
                  /\ PartsOf(ret.value[Len(ret.value)].content) =
                        <<"additionalConventions">>
            /\ ~extra => NamesOf(ret.value) = wanted

\* a conversion for roo with one flag set: one of two input rules is
\* targeted, and the synthetic rule follows it
C8_Witness ==
    /\ call = "convertRulesyncFilesToToolFiles"
    /\ toolTarget = "roo"
    /\ ~simulateCommands /\ simulateSubagents /\ ~simulateSkills
    /\ Len(arg) = 2
    /\ ret.status = "ok"
    /\ NamesOf(ret.value) = <<"2", "additional-conventions">>

\* the files loadToolFiles discovers: those of the locations the tool has
Discovered(disk) ==
    IF disk.settablePaths.status = "throw" THEN <<>>
    ELSE (IF disk.settablePaths.value.root THEN disk.rootFiles ELSE <<>>)
         \o (IF disk.settablePaths.value.nonRoot THEN disk.nonRootFiles ELSE <<>>)

\* the discovered files that parse
ValidFilesOf(files) ==
    LET IsValid(file) == file.valid
    IN SelectSeq(files, IsValid)

\* a deletion-oriented load has found one corrupt and one valid file
DeletionLoadOfOneCorruptOneValid ==
    /\ call = "loadToolFiles"
    /\ arg.forDeletion
    /\ Len(Discovered(arg.disk)) = 2
    /\ Len(ValidFilesOf(Discovered(arg.disk))) = 1

\* whether the call logged an error
LoggedError == \E i \in 1..Len(log) : log[i].level = "error"

\* C9 as stated: with one corrupt and one valid tool rule file, the
\* deletion-oriented load does not throw and returns exactly the valid rule.
C9_AsStated ==
    DeletionLoadOfOneCorruptOneValid =>
        /\ ret.status = "ok"
        /\ NamesOf(ret.value) = NamesOf(ValidFilesOf(Discovered(arg.disk)))

\* C9, amended: with one corrupt and one valid tool rule file, the
\* deletion-oriented load does not throw; it logs the error and returns the
\* empty list, the valid rule not included.
C9_DeletionLoadReturnsEmpty ==
    DeletionLoadOfOneCorruptOneValid =>
        /\ ret.status = "ok"
        /\ ret.value = <<>>
        /\ LoggedError

\* a deletion-oriented load of a directory with a valid and a corrupt file
C9_Witness ==
    /\ DeletionLoadOfOneCorruptOneValid
    /\ arg.disk.settablePaths.value.nonRoot
    /\ Len(arg.disk.nonRootFiles) = 2
    /\ arg.disk.nonRootFiles[1].valid
    /\ ~arg.disk.nonRootFiles[2].valid
    /\ ret.status = "ok"

\* a conversion-oriented load has found a file that does not parse
ConversionLoadOfACorruptFile ==
    /\ call = "loadToolFiles"
    /\ ~arg.forDeletion
    /\ ValidFilesOf(Discovered(arg.disk)) # Discovered(arg.disk)

-----------------------------------------------------------------------------
(* Claims about lookups, capability lists and configuration *)

\* C11: a registry lookup of a tool identifier that has no registry entry
\* fails with "Unsupported tool target: <id>"; convertRulesyncDirsToToolDirs
\* and loadToolDirs of a processor whose toolTarget has no entry throw that
\* same error, return no document and log no load.
C11_UnsupportedTargetError ==
    /\ (call = "getFactory" /\ arg.target \notin DOMAIN toolSkillFactories) =>
            ret = Throw("Unsupported tool target: " \o arg.target)
    /\ (/\ call \in {"convertRulesyncDirsToToolDirs", "loadToolDirs"}
        /\ toolTarget \notin DOMAIN toolSkillFactories) =>
            /\ ret.status = "throw"
            /\ ret.error = "Unsupported tool target: " \o toolTarget
            /\ ret.value = <<>>
            /\ log = <<>>

\* loadToolDirs of a processor with an unregistered toolTarget, over a
\* directory that holds a valid skill, has thrown
C11_Witness ==
    /\ call = "loadToolDirs"
    /\ toolTarget = "unsupported"
    /\ arg.settablePaths.status = "ok"
    /\ Len(arg.dirs) >= 1
    /\ arg.dirs[1].valid
    /\ ret.status = "throw"
    /\ ret.error = "Unsupported tool target: unsupported"

\* C12: CodexCliSimulatedSkill.getSettablePaths throws "CodexCliSimulatedSkill
\* does not support global mode." when called with global true, and returns
\* the directory .codex/skills when global is false or omitted (no options,
\* or options without global); it returns no path for global mode.
C12_GlobalModeRejected ==
    call = "getSettablePaths" =>
        LET isGlobal == arg # Absent /\ arg[1].global = Some(TRUE)
        IN  /\ isGlobal =>
                ret = Throw("CodexCliSimulatedSkill does not support global mode.")
            /\ ~isGlobal => ret = Ok(".codex/skills")
            /\ ret.status = "ok" => ~isGlobal

\* getSettablePaths({global: true}) has thrown
C12_Witness ==
    /\ call = "getSettablePaths"
    /\ arg = Some([global |-> Some(TRUE)])
    /\ ret.status = "throw"

\* the warnings among the lines a call logged
WarningsOf(lines) ==
    LET IsWarning(line) == line.level = "warn"
    IN SelectSeq(lines, IsWarning)

\* the non-root rules of an array, in order
NonRootRulesOf(rules) ==
    LET IsNonRoot(rule) == ~rule.root
    IN SelectSeq(rules, IsNonRoot)

\* C13: a loadRulesyncFiles that does not fail for multiple root rules
\* returns, in global mode, only the root rule (the empty list when there is
\* none) and logs one warning carrying the number of non-root rules it
\* discarded exactly when that number is positive, without throwing; in
\* project mode it returns every loaded rule and logs no warning. No
\* global-mode result holds a non-root rule.
C13_GlobalModeKeepsOnlyRoot ==
    call = "loadRulesyncFiles" =>
        /\ (global /\ ret.status = "ok") => NonRootRulesOf(ret.value) = <<>>
        /\ Len(RootRulesOf(arg)) <= 1 =>
              /\ ret.status = "ok"
              /\ global =>
                    /\ ret.value = RootRulesOf(arg)
                    /\ WarningsOf(log) =
                          IF Len(NonRootRulesOf(arg)) > 0
                          THEN <<[level |-> "warn",
                                  what |-> "non-root rulesync rules ignored",
                                  n |-> Len(NonRootRulesOf(arg))]>>
                          ELSE <<>>
              /\ ~global =>
                    /\ ret.value = arg
                    /\ WarningsOf(log) = <<>>

\* a global-mode load of one root rule and two non-root rules has returned
\* the root rule and warned about the two
C13_Witness ==
    /\ call = "loadRulesyncFiles"
    /\ global
    /\ Len(RootRulesOf(arg)) = 1
    /\ Len(NonRootRulesOf(arg)) = 2
    /\ ret.status = "ok"
    /\ Len(ret.value) = 1
    /\ Len(WarningsOf(log)) = 1
    /\ WarningsOf(log)[1].n = 2

\* the registered tools whose metadata flag is set, in registration order
RegisteredWith(flag) ==
    LET Has(t) == toolSkillFactories[t].meta[flag]
    IN SelectSeq(skillsProcessorToolTargetTuple, Has)

\* the global and includeSimulated a getToolTargets call ran with
GetToolTargetsGlobalArg == arg # Absent /\ arg[1].global = Some(TRUE)

GetToolTargetsIncludeSimulatedArg == arg # Absent /\ arg[1].includeSimulated = Some(TRUE)

\* C14: getToolTargets({global, includeSimulated}) returns the global-capable
\* tools when global is true, whatever includeSimulated is; when global is
\* false or omitted it returns the project-capable tools, without the
\* simulated-capable ones unless includeSimulated is true. For the shipped
\* registry: ["claudecode"] by default, all six tools with includeSimulated,
\* ["claudecode", "codexcli"] with global.
C14_GetToolTargets ==
    call = "getToolTargets" =>
        LET NotSimulated(t) == ~toolSkillFactories[t].meta.supportsSimulated
        IN  /\ ret.status = "ok"
            /\ GetToolTargetsGlobalArg =>
                  /\ ret.value = RegisteredWith("supportsGlobal")
                  /\ ret.value = <<"claudecode", "codexcli">>
            /\ (~GetToolTargetsGlobalArg /\ GetToolTargetsIncludeSimulatedArg) =>
                  /\ ret.value = RegisteredWith("supportsProject")
                  /\ ret.value = skillsProcessorToolTargetTuple
            /\ (~GetToolTargetsGlobalArg /\ ~GetToolTargetsIncludeSimulatedArg) =>
                  /\ ret.value = SelectSeq(RegisteredWith("supportsProject"), NotSimulated)
                  /\ ret.value = <<"claudecode">>

\* the default call has returned claudecode alone
C14_Witness ==
    /\ call = "getToolTargets"
    /\ arg = Absent
    /\ ret.value = <<"claudecode">>

\* C15: getToolTargetsGlobal() is the registry entries with supportsGlobal
\* true, in registration order (claudecode, codexcli), getToolTargetsSimulated()
\* the entries with supportsSimulated true, in registration order (agentsmd,
\* codexcli, copilot, cursor, geminicli); every tool of either list has a
\* registry entry.
C15_DerivedCapabilityLists ==
    /\ call = "getToolTargetsGlobal" =>
          /\ ret.value = RegisteredWith("supportsGlobal")
          /\ ret.value = <<"claudecode", "codexcli">>
    /\ call = "getToolTargetsSimulated" =>
          /\ ret.value = RegisteredWith("supportsSimulated")
          /\ ret.value = <<"agentsmd", "codexcli", "copilot", "cursor", "geminicli">>
    /\ call \in {"getToolTargetsGlobal", "getToolTargetsSimulated"} =>
          \A i \in 1..Len(ret.value) : ret.value[i] \in DOMAIN toolSkillFactories

\* getToolTargetsGlobal() has returned the two global-capable tools
C15_Witness ==
    /\ call = "getToolTargetsGlobal"
    /\ Len(ret.value) = 2

\* C16: the lists RulesProcessor.getToolTargets returns are computed from the
\* entries of toolRuleFactories: every tool with an entry is in the project
\* list, so a newly registered tool appears in it with no other change, and
\* every tool of the project list and of the global list has an entry.
C16_ListsDerivedFromRegistry ==
    call = "rulesGetToolTargets" =>
        /\ \A i \in 1..Len(ret.value) : ret.value[i] \in arg.registered
        /\ arg.global # Some(TRUE) =>
              \A t \in arg.registered : Includes(ret.value, t)

-----------------------------------------------------------------------------
(* Claims about the round trip of a skill *)

\* the name, description and body of a skill
FieldsOf(skill) == <<skill.frontmatter.name, skill.frontmatter.description, skill.body>>

\* the list holds one skill, with the fields of the canonical skill
ExactlyTheSkillOf(canonical, skills) ==
    /\ Len(skills) = 1
    /\ FieldsOf(skills[1]) = FieldsOf(canonical)

\* the claudecode processor has loaded back, or converted back, what it
\* wrote for a canonical skill
ClaudecodeRoundTrip ==
    /\ toolTarget = "claudecode"
    /\ call \in {"loadToolDirs", "convertToolDirsToRulesyncDirs"}

-----------------------------------------------------------------------------
(* Claims about ConfigResolver.resolve *)

\* the options that have a deprecated synonym
MigratedOptions == {"global", "simulateCommands", "simulateSubagents"}

\* the first defined value of a sequence of optional values, else the default
FirstDefined(values, default) ==
    IF \A i \in 1..Len(values) : values[i] = Absent THEN default
    ELSE LET first == CHOOSE i \in 1..Len(values) :
                          /\ values[i] # Absent
                          /\ \A j \in 1..(i - 1) : values[j] = Absent
         IN values[first][1]

\* C18: a resolve that returns resolves each of global, simulateCommands and
\* simulateSubagents as the first defined value among the caller's new
\* option, the config file's new option, the caller's deprecated option and
\* the config file's deprecated option, in that order, and as false when
\* none is defined; so a defined new option, from either source, wins over
\* any defined deprecated option.
C18_NewOptionWins ==
    (call = "resolve" /\ ret.status = "ok") =>
        \A o \in MigratedOptions :
            /\ ret.value[o] =
                  FirstDefined(<<arg.caller[o], arg.file.params[o],
                                 arg.caller[DeprecatedOf(o)],
                                 arg.file.params[DeprecatedOf(o)]>>, FALSE)
            /\ arg.caller[o] # Absent => ret.value[o] = arg.caller[o][1]
            /\ (arg.caller[o] = Absent /\ arg.file.params[o] # Absent) =>
                  ret.value[o] = arg.file.params[o][1]

\* the config file's global: false has won over the caller's
\* experimentalGlobal: true
C18_Witness ==
    /\ call = "resolve"
    /\ ret.status = "ok"
    /\ arg.caller.global = Absent
    /\ arg.file.params.global = Some(FALSE)
    /\ arg.caller.experimentalGlobal = Some(TRUE)
    /\ ret.value.global = FALSE

\* how many times the deprecation warning of an option was logged
TimesWarned(deprecated) ==
    LET IsIt(line) == line = DeprecationWarning(deprecated)
    IN Len(SelectSeq(log, IsIt))

\* the caller or the config file defines the deprecated option
DefinesDeprecated(deprecated) ==
    arg.caller[deprecated] # Absent \/ arg.file.params[deprecated] # Absent

\* parameters with the deprecated options left out
WithoutDeprecated(params) ==
    [o \in ConfigOptions |->
        IF o \in {DeprecatedOf(m) : m \in MigratedOptions} THEN Absent ELSE params[o]]

\* a failure of resolve is not due to a deprecated option: the same call
\* without the deprecated options fails too
NoFailureFromDeprecated ==
    ret.status = "throw" =>
        resolve(WithoutDeprecated(arg.caller),
                [arg.file EXCEPT !.params = WithoutDeprecated(arg.file.params)]).status
            = "throw"

\* C19 as stated: resolve logs the deprecation warning of a deprecated option
\* if and only if the caller or the config file defines it, at most once per
\* option and call, and a defined deprecated option never makes it fail.
C19_AsStated ==
    call = "resolve" =>
        /\ \A m \in MigratedOptions :
              /\ TimesWarned(DeprecatedOf(m)) <= 1
              /\ TimesWarned(DeprecatedOf(m)) = 1 <=> DefinesDeprecated(DeprecatedOf(m))
        /\ NoFailureFromDeprecated

\* C19, amended: the same for every call that gets past loading the config
\* file (no file, or a file that parses), also when a new option overrides
\* the deprecated one; a call whose config file fails to load throws before
\* it logs any deprecation warning.
C19_DeprecationWarnings ==
    call = "resolve" =>
        /\ \A m \in MigratedOptions :
              /\ TimesWarned(DeprecatedOf(m)) <= 1
              /\ TimesWarned(DeprecatedOf(m)) = 1 <=>
                    (arg.file.status # "invalid" /\ DefinesDeprecated(DeprecatedOf(m)))
        /\ NoFailureFromDeprecated

\* both sources define experimentalGlobal and the caller's global overrides
\* it: one warning, and resolve returns
C19_Witness ==
    /\ call = "resolve"
    /\ ret.status = "ok"
    /\ arg.caller.global = Some(FALSE)
    /\ arg.caller.experimentalGlobal = Some(TRUE)
    /\ arg.file.params.experimentalGlobal = Some(TRUE)
    /\ TimesWarned("experimentalGlobal") = 1
    /\ ret.value.global = FALSE

-----------------------------------------------------------------------------
(* Claims about the order of loaded documents *)

\* one of the three loads has returned or thrown
LoadReturned ==
    /\ call \in {"loadRulesyncDirs", "loadToolDirs", "loadToolFiles"}
    /\ ret.status # "pending"

\* the names of the discovered paths, in the order they were enumerated: for
\* loadToolFiles the root paths, then the non-root paths
EnumeratedNames ==
    LET paths == IF Len(arg.groups) = 2 THEN arg.groups[1] \o arg.groups[2]
                 ELSE arg.groups[1]
    IN [i \in 1..Len(paths) |->
          IF arg.op = "loadToolFiles" THEN paths[i].name ELSE paths[i].dirName]

\* the names of the returned documents, in the order of the list
ReturnedNames ==
    [i \in 1..Len(ret.value) |->
        IF arg.op = "loadToolFiles" THEN ret.value[i].name ELSE ret.value[i].dirName]

\* a read that completed has failed
ReadFailed ==
    \E k \in 1..Len(arg.order) : ReadOutcomes(arg)[arg.order[k]].status = "throw"

\* C20 as stated: the list a load returns follows the enumeration order of
\* the discovered paths, whatever order the reads complete in, and the call
\* returns only after every read has finished.
C20_AsStated ==
    LoadReturned =>
        /\ ret.status = "ok" => (ret.value = <<>> \/ ReturnedNames = EnumeratedNames)
        /\ arg.inFlight = {}

\* C20, amended: a load that returns documents returns one per discovered
\* path, in enumeration order (root before non-root for loadToolFiles),
\* whatever order the reads completed in, and only after every read has
\* finished. A load leaves reads in flight only when a read has failed: it
\* then throws (the skills loads) or logs the error and returns the empty
\* list (loadToolFiles) at once.
C20_LoadOrder ==
    LoadReturned =>
        /\ ret.status = "ok" =>
              \/ ReturnedNames = EnumeratedNames /\ arg.inFlight = {}
              \/ arg.op = "loadToolFiles" /\ ret.value = <<>> /\ LoggedError
        /\ arg.inFlight # {} =>
              /\ ReadFailed
              /\ IF arg.op = "loadToolFiles" THEN ret = Ok(<<>>) ELSE ret.status = "throw"

\* loadToolDirs has returned three skills in enumeration order although the
\* reads completed in the reverse order
C20_Witness ==
    /\ LoadReturned
    /\ arg.op = "loadToolDirs"
    /\ arg.order = <<3, 2, 1>>
    /\ ret.status = "ok"
    /\ ReturnedNames = <<1, 2, 3>>

-----------------------------------------------------------------------------
(* Claims about construction *)

\* the processor class of the constructor called last
ConstructedClass == IF call = "new SkillsProcessor" THEN "SkillsProcessor" ELSE "RulesProcessor"

\* the supported target set of that processor
SupportedTargets ==
    IF call = "new SkillsProcessor" THEN SkillsProcessorToolTarget ELSE RulesProcessorToolTarget

\* C21: constructing a SkillsProcessor or a RulesProcessor with a tool target
\* outside the processor's supported target set throws "Invalid tool target
\* for SkillsProcessor: ..." (resp. RulesProcessor) and no processor is
\* created; with a supported target construction succeeds, the processor has
\* that target, and global is false unless the caller gave it.
C21_ConstructorValidation ==
    call \in {"new SkillsProcessor", "new RulesProcessor"} =>
        IF arg.toolTarget \notin SupportedTargets
        THEN /\ ret.status = "throw"
             /\ ret.error = "Invalid tool target for " \o ConstructedClass \o ": "
                                \o arg.toolTarget
             /\ toolTarget = Undefined
        ELSE /\ ret.status = "ok"
             /\ toolTarget = arg.toolTarget
             /\ global = (IF arg.global = Absent THEN FALSE ELSE arg.global[1])

\* a SkillsProcessor refused for a target the RulesProcessor supports
C21_Witness ==
    /\ call = "new SkillsProcessor"
    /\ arg.toolTarget = "roo"
    /\ ret.status = "throw"
    /\ toolTarget = Undefined

-----------------------------------------------------------------------------
(* Claims about the references block *)

\* the tools whose root rule gets a references block
ReferencesTools == InjectingTools \ {"copilot"}

\* the references blocks of a content
ReferencesBlocksOf(content) ==
    LET IsReferences(p) == p.part \in {"references", "toonReferences"}
    IN SelectSeq(content, IsReferences)

\* the names of the non-root rules of an array, in order
NonRootNamesOf(rules) == NamesOf(NonRootRulesOf(rules))

\* C22: the references block generated for a root rule lists every non-root
\* tool rule of the conversion result exactly once and in the order of the
\* input array, never the root rule itself; when the result has no non-root
\* rule the block is the empty string, so the root content has none.
C22_ReferencesBlock ==
    (InjectionHappened /\ toolTarget \in ReferencesTools) =>
        LET blocks == ReferencesBlocksOf(FirstRootOf(ret.value).content)
            inputOrder == NonRootNamesOf(TargetedRulesyncRules(arg, toolTarget))
        IN  IF NonRootRulesOf(ret.value) = <<>>
            THEN blocks = <<>>
            ELSE /\ Len(blocks) = 1
                 /\ blocks[1].part = ReferencesPart
                 /\ blocks[1].items = NonRootNamesOf(ret.value)
                 /\ blocks[1].items = inputOrder
                 /\ \A i, j \in 1..Len(blocks[1].items) :
                       blocks[1].items[i] = blocks[1].items[j] => i = j
                 /\ \A i \in 1..Len(blocks[1].items) :
                       blocks[1].items[i] # FirstRootOf(ret.value).name

\* a root rule loaded between two non-root rules whose names are in
\* descending order: the block lists the two in that order
C22_Witness ==
    /\ InjectionHappened
    /\ toolTarget = "claudecode"
    /\ Len(arg) = 3
    /\ arg[1].name = "3" /\ ~arg[1].root
    /\ arg[2].name = "2" /\ arg[2].root
    /\ arg[3].name = "1" /\ ~arg[3].root
    /\ Len(ReferencesBlocksOf(FirstRootOf(ret.value).content)) = 1
    /\ ReferencesBlocksOf(FirstRootOf(ret.value).content)[1].items = <<"3", "1">>

-----------------------------------------------------------------------------
(* Claims about the loads for deletion *)

\* C23: the forDeletion flag of RulesProcessor.loadToolFiles does not alter
\* behaviour: whatever is on disk, whatever the tool and the mode, the call
\* has the outcome (the same rules, or the same failure) and logs what the
\* call with the other value of the flag has and logs.
C23_ForDeletionAltersNothing ==
    call = "loadToolFiles" =>
        /\ ret = loadToolFiles(arg.disk, toolTarget, ~arg.forDeletion)
        /\ ret = loadToolFiles(arg.disk, toolTarget, FALSE)
        /\ ret = loadToolFiles(arg.disk, toolTarget, TRUE)
        /\ log = loadToolFilesLog(arg.disk, toolTarget)

\* a load for deletion that returned a root rule and a non-root rule
C23_Witness ==
    /\ call = "loadToolFiles"
    /\ arg.forDeletion
    /\ ret.status = "ok"
    /\ \E i \in 1..Len(ret.value) : ret.value[i].root
    /\ \E i \in 1..Len(ret.value) : ~ret.value[i].root

\* C24: SkillsProcessor.loadToolDirsToDelete has the outcome of
\* SkillsProcessor.loadToolDirs on the same disk: the same tool skills when
\* the load succeeds (none when no skill directory is found), the same error
\* when it fails; it filters nothing out and swallows no error.
C24_LoadToolDirsToDelete ==
    call = "loadToolDirsToDelete" =>
        LET plain == loadToolDirs(arg, toolTarget, global)
        IN  /\ ret = plain
            /\ log = loadDirsLog(plain)
            /\ plain.status = "throw" => (ret.status = "throw" /\ ret.error = plain.error)
            /\ plain.status = "ok" =>
                  /\ Len(ret.value) = Len(arg.dirs)
                  /\ \A i \in 1..Len(arg.dirs) : ret.value[i].dirName = arg.dirs[i].dirName
            /\ (plain.status = "ok" /\ arg.dirs = <<>>) => ret = Ok(<<>>)

\* a load for deletion that failed as the plain load does, one of the
\* directories having no valid SKILL.md
C24_Witness ==
    /\ call = "loadToolDirsToDelete"
    /\ toolTarget = "claudecode"
    /\ Len(arg.dirs) = 2
    /\ arg.dirs[1].valid
    /\ ~arg.dirs[2].valid
    /\ ret.status = "throw"

-----------------------------------------------------------------------------
(* Claims about the failures of the skills loads *)

\* a skills load that started its reads has returned or thrown
SkillsLoadEnded ==
    /\ call \in {"loadRulesyncDirs", "loadToolDirs"}
    /\ arg.class # ""
    /\ ret # Pending

\* the directories a skills load enumerated
EnumeratedDirs == arg.groups[1]

\* C25: loadToolDirs and loadRulesyncDirs are all-or-nothing: when one of the
\* enumerated skill directories fails to load, the call throws that read's
\* error and returns no list, whichever reads had succeeded and in whatever
\* order the reads completed, and it logs nothing; when every directory
\* loads, it returns them all; when no skill directory is found it returns
\* the empty list without error.
C25_AllOrNothing ==
    SkillsLoadEnded =>
        IF \E i \in 1..Len(EnumeratedDirs) : ~EnumeratedDirs[i].valid
        THEN /\ ret.status = "throw"
             /\ ret.error = "Invalid frontmatter"
             /\ ret.value = <<>>
             /\ log = <<>>
        ELSE /\ ret.status = "ok"
             /\ Len(ret.value) = Len(EnumeratedDirs)
             /\ \A i \in 1..Len(EnumeratedDirs) :
                   ret.value[i].dirName = EnumeratedDirs[i].dirName
             /\ EnumeratedDirs = <<>> => ret = Ok(<<>>)

\* a load of three directories, two of which were read successfully before
\* the third failed: the call threw and returned none of them
C25_Witness ==
    /\ SkillsLoadEnded
    /\ call = "loadRulesyncDirs"
    /\ Len(EnumeratedDirs) = 3
    /\ EnumeratedDirs[1].valid /\ ~EnumeratedDirs[2].valid /\ EnumeratedDirs[3].valid
    /\ arg.order = <<3, 1, 2>>
    /\ ret.status = "throw"

-----------------------------------------------------------------------------
(* Claims about the base directories *)

\* the base directories the caller or the config file supplied, else the
\* default ones
SuppliedBaseDirs ==
    FirstDefined(<<arg.caller.baseDirs, arg.file.params.baseDirs>>, <<Cwd>>)

\* the global option as resolve resolves it
ResolvedGlobal ==
    FirstDefined(<<arg.caller.global, arg.file.params.global,
                   arg.caller.experimentalGlobal, arg.file.params.experimentalGlobal>>,
                 FALSE)

\* resolve was called and the config file, if there is one, was loaded
ResolveGotPastConfigFile == call = "resolve" /\ arg.file.status # "invalid"

\* C26: when the resolved global option is true, resolve produces a Config
\* whose base directories are exactly the home directory, whatever base
\* directories the caller or the config file supplied; when it is false, the
\* Config's base directories are the supplied (or default) ones, each
\* resolved to an absolute path and accepted by validateBaseDir, in the same
\* order and number, and resolve throws if one of them is not accepted.
C26_BaseDirsInLightOfGlobal ==
    ResolveGotPastConfigFile =>
        IF ResolvedGlobal
        THEN /\ ret.status = "ok"
             /\ ret.value.global
             /\ ret.value.baseDirs = <<getHomeDirectory>>
        ELSE IF \A i \in 1..Len(SuppliedBaseDirs) : SuppliedBaseDirs[i].allowed
        THEN /\ ret.status = "ok"
             /\ ~ret.value.global
             /\ Len(ret.value.baseDirs) = Len(SuppliedBaseDirs)
             /\ \A i \in 1..Len(SuppliedBaseDirs) :
                   /\ ret.value.baseDirs[i] = pathResolve(SuppliedBaseDirs[i])
                   /\ ret.value.baseDirs[i].absolute
                   /\ ".." \notin {ret.value.baseDirs[i].segments[k] :
                                      k \in 1..Len(ret.value.baseDirs[i].segments)}
        ELSE ret.status = "throw"

\* a resolution in which the config file sets global and the caller supplies
\* two base directories, one of which would not be accepted: the Config has
\* the home directory alone
C26_Witness ==
    /\ ResolveGotPastConfigFile
    /\ arg.caller.global = Absent
    /\ arg.file.params.global = Some(TRUE)
    /\ arg.caller.baseDirs # Absent
    /\ Len(arg.caller.baseDirs[1]) = 2
    /\ ~arg.caller.baseDirs[1][2].allowed
    /\ ret.status = "ok"
    /\ ret.value.baseDirs = <<getHomeDirectory>>

-----------------------------------------------------------------------------
(* Claims about what a conversion leaves alone *)

\* a canonical document is in the state a conversion left it in
AfterConversion ==
    call \in {"convertRulesyncFilesToToolFiles", "convertRulesyncDirsToToolDirs"}

\* no part occurs twice in a content
NoPartTwice(content) ==
    \A i, j \in 1..Len(content) : content[i].part = content[j].part => i = j

-----------------------------------------------------------------------------
(* Claims about the additional-conventions block *)

\* the conventions block this processor generates at its tool's call site
ConventionsBlock ==
    generateAdditionalConventionsSection(
        PassedDirs(toolTarget), toolTarget,
        simulateCommands, simulateSubagents, simulateSkills)

\* the canonical rule the first root rule of the output was converted from
CanonicalOfFirstRoot ==
    LET IsIt(f) == f.kind = "RulesyncRule" /\ f.name = FirstRootOf(ret.value).name
    IN SelectSeq(arg, IsIt)[1]

\* C28: the additional-conventions block is never empty: it always begins
\* with the overview heading, also when the three simulate flags are false.
\* So for agentsmd, codexcli, copilot and geminicli the content of the root
\* rule is changed by a conversion whenever the output has a root rule, even
\* with no simulate flag set and no non-root rule: the block is put before
\* the converted content.
C28_ConventionsBlockNeverEmpty ==
    /\ ConventionsBlock # <<>>
    /\ ConventionsBlock[1].items[1] = "overview"
    /\ (InjectionHappened /\ toolTarget \in ConventionsTools) =>
          LET content == FirstRootOf(ret.value).content
              converted == CanonicalOfFirstRoot.body
          IN  /\ content # converted
              /\ Len(content) > Len(converted)
              /\ \E i \in 1..Len(content) :
                    /\ content[i].part = "additionalConventions"
                    /\ content[i].items[1] = "overview"
              /\ (~simulateCommands /\ ~simulateSubagents /\ ~simulateSkills) =>
                    \E i \in 1..Len(content) : content[i].items = <<"overview">>

\* a copilot conversion of a root rule alone, no simulate flag set: the root
\* rule's content is the overview and then the converted content
C28_Witness ==
    /\ InjectionHappened
    /\ toolTarget = "copilot"
    /\ ~simulateCommands /\ ~simulateSubagents /\ ~simulateSkills
    /\ Len(arg) = 1
    /\ Len(ret.value) = 1
    /\ ret.value[1].content =
          <<[part |-> "additionalConventions", items |-> <<"overview">>]>> \o arg[1].body

-----------------------------------------------------------------------------
(* Claims about what root injection leaves alone *)

\* the tools whose conversion has no injection case
NoInjectionTools ==
    {"amazonqcli", "antigravity", "augmentcode", "cline", "cursor", "junie", "roo",
     "windsurf"}

\* the plain conversion of each targeted canonical rule, in input order
PlainConversion ==
    LET targeted == TargetedRulesyncRules(arg, toolTarget)
    IN [i \in 1..Len(targeted) |->
          fromRulesyncRule(toolRuleFactories[toolTarget].class, targeted[i], global)]

\* the position of the first root rule of the output, 0 when it has none
FirstRootIndex == FindIndex(ret.value, isRoot)

\* C29: root injection rewrites at most one rule: each rule of the output
\* converted from a canonical rule is its plain conversion, but for the
\* content of the first root rule, which alone may differ; with no root rule
\* in the output none differs, and for amazonqcli, antigravity, augmentcode,
\* cline, cursor, junie, roo and windsurf (the tools with no injection case)
\* the root rule keeps its converted content too.
C29_AtMostOneRuleRewritten ==
    (call = "convertRulesyncFilesToToolFiles" /\ ret.status = "ok") =>
        /\ Len(ret.value) >= Len(PlainConversion)
        /\ \A i \in 1..Len(PlainConversion) :
              \/ ret.value[i] = PlainConversion[i]
              \/ /\ i = FirstRootIndex
                 /\ toolTarget \notin NoInjectionTools
                 /\ ret.value[i] = setFileContent(PlainConversion[i], ret.value[i].content)
        /\ NoInjectionTools = RulesProcessorToolTarget \ InjectingTools

\* an agentsmd conversion of two root rules: the first is rewritten, the
\* second keeps its converted content
C29_Witness ==
    /\ call = "convertRulesyncFilesToToolFiles"
    /\ toolTarget = "agentsmd"
    /\ ret.status = "ok"
    /\ Len(ret.value) = 3
    /\ ret.value[1].root /\ ret.value[2].root /\ ~ret.value[3].root
    /\ ret.value[1] # PlainConversion[1]
    /\ ret.value[2] = PlainConversion[2]
    /\ ret.value[3] = PlainConversion[3]

-----------------------------------------------------------------------------
(* Claims about codexcli in the two modes *)

\* the error of CodexCliSimulatedSkill.getSettablePaths in global mode
SimulatedGlobalRejection == "CodexCliSimulatedSkill does not support global mode."

\* the class the SkillsProcessor of codexcli resolves its paths on
CodexCliPathsClass == defaultGetFactory(toolTarget, global).value.class

\* C30: with the default registry, a SkillsProcessor for codexcli resolves
\* paths on CodexCliSimulatedSkill only when global is false and on
\* CodexCliSkill when global is true, and the codexcli root injection of the
\* rules processor picks the skills directory the same way; so in both modes
\* loadToolDirs (and the load for deletion), the skills conversion and
\* convertRulesyncFilesToToolFiles never fail with "CodexCliSimulatedSkill
\* does not support global mode."
C30_NoSimulatedGlobalRejection ==
    toolTarget = "codexcli" =>
        /\ defaultGetFactory(toolTarget, global).status = "ok"
        /\ CodexCliPathsClass =
              (IF global THEN "CodexCliSkill" ELSE "CodexCliSimulatedSkill")
        /\ IsSimulatedSkill(CodexCliPathsClass) <=> ~global
        /\ CodexCliSkillsDir(global).status = "ok"
        /\ ret.error # SimulatedGlobalRejection
        /\ call \in {"loadToolDirs", "loadToolDirsToDelete"} =>
              /\ SkillSettablePaths(CodexCliPathsClass, global, arg).error
                    # SimulatedGlobalRejection
              /\ ~global => SkillSettablePaths(CodexCliPathsClass, global, arg).status = "ok"
        /\ call \in {"convertRulesyncFilesToToolFiles", "convertRulesyncDirsToToolDirs"} =>
              ret.status = "ok"

\* a global-mode conversion for codexcli that rewrote the root rule, the
\* skills section of its conventions block being generated
C30_Witness ==
    /\ toolTarget = "codexcli"
    /\ global
    /\ simulateSkills
    /\ call = "convertRulesyncFilesToToolFiles"
    /\ ret.status = "ok"
    /\ \E i \in 1..Len(ret.value) :
          /\ ret.value[i].root
          /\ \E k \in 1..Len(ret.value[i].content) :
                /\ ret.value[i].content[k].part = "additionalConventions"
                /\ ret.value[i].content[k].items = <<"overview", "skills">>

====
